---- MODULE Spec2Model ----
(***************************************************************************)
(* A model of the spectrusty emulator core: the ULA frame engine           *)
(* (src/src/chip/ula.rs and src/src/chip/ula/{video,audio}.rs), the halted *)
(* state fast-forward, and the bus device chain (src/src/bus/ay.rs,        *)
(* src/src/bus/dynbus.rs, src/spectrusty_peripherals/src/bus/joystick.rs). *)
(***************************************************************************)
EXTENDS Integers, Sequences, FiniteSets, TLC

VARIABLES
    \* ---- halted fast-forward test bench (ula.rs tests::test_ula_contended_halt)
    hphase,     \* "start" | "stepping" | "done"
    halt_pc,    \* address of the HALT opcode, cpu.get_pc()
    ula_tsc,    \* ula.tsc  : timestamp of the fast-forwarding Ula
    cpu,        \* cpu      : [r, halt] of the fast-forwarded Cpu
    tsc1,       \* tsc1     : timestamp of the stepping clone
    cpu1,       \* cpu1     : [r, halt] of the stepping clone
    ff_branch,  \* which branch the fast-forward took: "none" | "contended" | "plain"
    \* ---- the ULA frame engine (chip/ula.rs)
    ula,        \* struct Ula: frames, tsc, bus, logs, ... (and the ghost call trace)
    ctl,        \* position of the caller: "idle" | "frame" (inside execute_next_frame)
    vtsc,       \* the local VFrameTsCounter of the running pass
    call,       \* ghost: the ControlUnit call in progress or last finished
    \* ---- the bus device chain under test
    bus,        \* the chain's devices and (ghost) the last call made on it
    \* ---- functions of the video frame and of the port decoders put to the test
    probe,      \* the input drawn and, once applied, what the function returned
    \* ---- the AY-3-891x sound generators (audio/ay.rs)
    ay          \* the generator in use and (ghost) what it has returned so far

haltVars == <<hphase, halt_pc, ula_tsc, tsc1, cpu1, ff_branch>>
ulaVars == <<ula, ctl, vtsc, call>>
benchVars == <<probe, ay>>
vars == <<haltVars, cpu, ulaVars, bus, benchVars>>

----------------------------------------------------------------------------
(* Helpers: machine arithmetic *)

\* Rust's integer `/` truncates towards zero.
TruncDiv(a, b) == IF a >= 0 THEN a \div b ELSE -((-a) \div b)

\* Rust's rem_euclid for a positive modulus.
RemEuclid(a, m) == a % m

RECURSIVE BitAnd(_, _)
\* Bitwise AND of two non-negative integers.
BitAnd(a, b) ==
    IF a = 0 \/ b = 0 THEN 0
    ELSE (a % 2) * (b % 2) + 2 * BitAnd(a \div 2, b \div 2)

----------------------------------------------------------------------------
(* Video frame descriptor of the 48K ULA: chip/ula/video.rs *)

HTS_START == -69
HTS_END == 155
VSL_PIXELS_START == 64
VSL_PIXELS_END == 256
VSL_COUNT == 312
M1_CYCLE_TS == 4
HTS_COUNT == HTS_END - HTS_START
FRAME_TSTATES_COUNT == VSL_COUNT * HTS_COUNT

HTS_RANGE == HTS_START .. (HTS_END - 1)

VideoTs(vc, hc) == [vc |-> vc, hc |-> hc]

\* UlaVideoFrame::contention
contention_mut_wide_window(hc) ==
    IF hc >= -1 /\ hc < 133
    THEN LET ct == BitAnd(hc + 1, 7)
         IN  IF ct < 6 THEN hc + 6 - ct ELSE hc
    ELSE hc

contention(hc) ==
    IF hc >= -1 /\ hc < 125
    THEN LET ct == BitAnd(hc + 1, 7)
         IN  IF ct < 6 THEN hc + 6 - ct ELSE hc
    ELSE hc

\* VideoFrame::is_vts_eof
is_vts_eof(ts) == ts.vc >= VSL_COUNT

\* UlaMemoryContention::is_contended_address
is_contended_address(addr) == BitAnd(addr, 49152) = 16384

\* VideoFrame::is_contended_line_mreq
is_contended_line_mreq(vc) == vc >= VSL_PIXELS_START /\ vc < VSL_PIXELS_END

\* VFrameTsCounter::add_m1: one M1 cycle fetched from `addr`
add_m1(ts, addr) ==
    LET hc0 == IF is_contended_address(addr) /\ is_contended_line_mreq(ts.vc)
               THEN contention(ts.hc) ELSE ts.hc
        hc1 == hc0 + M1_CYCLE_TS
    IN  IF hc1 >= HTS_END THEN VideoTs(ts.vc + 1, hc1 - HTS_COUNT)
        ELSE VideoTs(ts.vc, hc1)

\* Cpu::add_r: the refresh counter is the low 7 bits of R
add_r(c, delta) == [c EXCEPT !.r = (c.r + delta) % 128]

----------------------------------------------------------------------------
(* execute_halted_state_until_eof: chip/ula.rs *)

RECURSIVE halted_line(_, _)
\* `while hc < V::HTS_RANGE.end { hc = V::contention(hc) + M1_CYCLE_TS; n += 1 }`
\* returns <<hc, n>>
halted_line(hc, n) ==
    IF hc < HTS_END THEN halted_line(contention(hc) + M1_CYCLE_TS, n + 1)
    ELSE <<hc, n>>

\* The contended part: returns [vc, hc, r_incr] at the bottom border.
halted_contended(tsc) ==
    LET top == tsc.vc < VSL_PIXELS_START
        hc_end == HTS_END + RemEuclid(tsc.hc - HTS_END, M1_CYCLE_TS)
        ln == halted_line(tsc.hc, 0)
        \* after the first branch
        vc1 == IF top THEN VSL_PIXELS_START ELSE tsc.vc + 1
        hc1 == IF top THEN hc_end - HTS_COUNT ELSE ln[1] - HTS_COUNT
        r1 == IF top
              THEN TruncDiv((VSL_PIXELS_START - (tsc.vc + 1)) * HTS_COUNT
                            + (hc_end - tsc.hc), M1_CYCLE_TS)
              ELSE ln[2]
        whole == halted_line(hc1, 0)
        hc2 == IF vc1 < VSL_PIXELS_END THEN whole[1] - HTS_COUNT ELSE hc1
        r2 == IF vc1 < VSL_PIXELS_END
              THEN r1 + (VSL_PIXELS_END - vc1) * whole[2] ELSE r1
    IN  [vc |-> VSL_PIXELS_END, hc |-> hc2, r_incr |-> r2]

\* halted_bottom leaving hc as it came
halted_bottom_mut_keep_hc(c) ==
    [tsc |-> VideoTs(VSL_COUNT, c.hc),
     r_incr |-> c.r_incr + TruncDiv((VSL_COUNT - c.vc) * HTS_COUNT, M1_CYCLE_TS)]

\* The bottom border, from c = [vc, hc, r_incr]: returns [tsc, r_incr].
halted_bottom(c) ==
    LET hc == RemEuclid(c.hc, M1_CYCLE_TS)
        r_incr == c.r_incr + TruncDiv((VSL_COUNT - c.vc) * HTS_COUNT + (hc - c.hc),
                                      M1_CYCLE_TS)
    IN  [tsc |-> VideoTs(VSL_COUNT, hc), r_incr |-> r_incr]

\* halted_bottom without the `hc - tsc.hc` term of the last division
halted_bottom_no_hc_term(c) ==
    [tsc |-> VideoTs(VSL_COUNT, RemEuclid(c.hc, M1_CYCLE_TS)),
     r_incr |-> c.r_incr + TruncDiv((VSL_COUNT - c.vc) * HTS_COUNT, M1_CYCLE_TS)]

halted_until_eof_mut_no_hc_term(tsc, pc) ==
    halted_bottom_no_hc_term(
        IF is_contended_address(pc) /\ tsc.vc < VSL_PIXELS_END
        THEN halted_contended(tsc)
        ELSE [vc |-> tsc.vc, hc |-> tsc.hc, r_incr |-> 0])

\* Returns [tsc, r_incr]; the caller adds r_incr to R when it is >= 0
\* (the code's other branch is unreachable!()).
halted_until_eof(tsc, pc) ==
    halted_bottom(
        IF is_contended_address(pc) /\ tsc.vc < VSL_PIXELS_END
        THEN halted_contended(tsc)
        ELSE [vc |-> tsc.vc, hc |-> tsc.hc, r_incr |-> 0])

\* `if r_incr >= 0 { cpu.add_r(r_incr) } else { unreachable!() }`
halted_add_r(res, c) ==
    [tsc |-> res.tsc,
     cpu |-> IF res.r_incr >= 0 THEN add_r(c, res.r_incr)
             ELSE [c EXCEPT !.panic = TRUE]]

execute_halted_state_until_eof(tsc, c) ==
    halted_add_r(halted_until_eof(tsc, c.pc), c)

----------------------------------------------------------------------------
(* struct Ula and prepare_next_frame: chip/ula.rs, chip/ula/video.rs,      *)
(* chip/ula/audio.rs                                                       *)

\* Wrapping<u64> as four 16-bit limbs, least significant first.
LIMB == 256 * 256
U64_ZERO == <<0, 0, 0, 0>>
U64_MAX == <<LIMB - 1, LIMB - 1, LIMB - 1, LIMB - 1>>

RECURSIVE u64_inc_from(_, _)
u64_inc_from(x, i) ==
    IF i > Len(x) THEN x
    ELSE IF x[i] = LIMB - 1 THEN u64_inc_from([x EXCEPT ![i] = 0], i + 1)
    ELSE [x EXCEPT ![i] = @ + 1]

\* `self.frames += Wrapping(1)`
wrapping_inc(x) == u64_inc_from(x, 1)

\* derive(PartialOrd, Ord) of VideoTs { vc, hc }
TsLess(a, b) == a.vc < b.vc \/ (a.vc = b.vc /\ a.hc < b.hc)
TsLeq(a, b) == a = b \/ TsLess(a, b)

\* VideoFrame::vts_to_tstates
vts_to_tstates(ts) == ts.vc * HTS_COUNT + ts.hc

\* FTs is i32: FTs::min_value() and i32::saturating_sub for a positive rhs
FTS_MIN == -2147483647 - 1
saturating_sub(x, d) == IF x < FTS_MIN + d THEN FTS_MIN ELSE x - d

NoTs == [vc |-> -32768, hc |-> -32768]

\* ghost: the sequence of calls made inside the current ControlUnit call
Ev(u, name) == [u EXCEPT !.trace = Append(@, name)]

\* impl Default for Ula (the bus device B is a recorder of what it is told)
UlaDefault ==
    [frames |-> U64_ZERO,
     tsc |-> VideoTs(0, 0),
     bus |-> [next_frame |-> NoTs, reset |-> NoTs, update_timestamp |-> NoTs],
     frame_cache |-> {},
     border_out_changes |-> <<>>,
     earmic_out_changes |-> <<>>,
     ear_in_changes |-> <<>>,
     border |-> 7,
     last_border |-> 7,
     prev_ear_in |-> 0,
     ear_in_last_index |-> 0,
     prev_earmic_ts |-> FTS_MIN,
     prev_earmic_data |-> 0,
     last_earmic_data |-> 0,
     trace |-> <<>>]

\* Ula::cleanup_video_frame_data
cleanup_video_frame_data(u) ==
    Ev([u EXCEPT !.border = u.last_border,
                 !.border_out_changes = <<>>,
                 !.frame_cache = {}],
       "cleanup_video_frame_data")

\* Ula::read_ear_in taking Err(index) of the binary search as Some(index): the
\* entry after the last one not later than ts, when there is one
read_ear_in_mut_after(u, ts) ==
    LET n == Len(u.ear_in_changes)
        first == u.ear_in_last_index + 1
        below == {i \in first .. n : TsLeq(u.ear_in_changes[i].ts, ts)}
        at == IF first + Cardinality(below) <= n /\ below # {}
              THEN Cardinality(below) ELSE Cardinality(below) - 1
    IN  IF first <= n
        THEN IF below = {}
             THEN [ula |-> u, data |-> u.prev_ear_in]
             ELSE [ula |-> [u EXCEPT !.ear_in_last_index = @ + at],
                   data |-> u.ear_in_changes[first + at].data]
        ELSE [ula |-> u,
              data |-> IF BitAnd(u.last_earmic_data, 2) = 0 THEN 0 ELSE 1]

\* Ula::read_ear_in: returns [ula, data]; the binary search over the sorted
\* tail finds the last entry not later than (ts, 1)
read_ear_in(u, ts) ==
    LET n == Len(u.ear_in_changes)
        first == u.ear_in_last_index + 1
        below == {i \in first .. n : TsLeq(u.ear_in_changes[i].ts, ts)}
    IN  IF first <= n
        THEN IF below = {}
             THEN [ula |-> u, data |-> u.prev_ear_in]
             ELSE [ula |-> [u EXCEPT !.ear_in_last_index = @ + Cardinality(below) - 1],
                   data |-> u.ear_in_changes[first + Cardinality(below) - 1].data]
        ELSE [ula |-> u,
              data |-> IF BitAnd(u.last_earmic_data, 2) = 0 THEN 0 ELSE 1]

\* cleanup_audio_frame_data keeping the entry the last read stopped at
cleanup_audio_frame_data_mut_keep_read(u) ==
    LET rd == read_ear_in(u, u.tsc)
        u1 == rd.ula
        n == Len(u1.ear_in_changes)
        index == u1.ear_in_last_index
        kept == [i \in 1 .. (n - index) |->
                    [u1.ear_in_changes[index + i] EXCEPT !.ts.vc = @ - VSL_COUNT]]
    IN  Ev([u1 EXCEPT !.earmic_out_changes = <<>>,
                      !.prev_earmic_data = u.last_earmic_data,
                      !.prev_ear_in = rd.data,
                      !.ear_in_changes = kept,
                      !.ear_in_last_index = 0],
           "cleanup_audio_frame_data")

\* cleanup_audio_frame_data leaving prev_ear_in as it was
cleanup_audio_frame_data_mut_keep_level(u) ==
    LET rd == read_ear_in(u, u.tsc)
        u1 == rd.ula
        n == Len(u1.ear_in_changes)
        index == IF u1.ear_in_last_index < n
                    /\ TsLeq(u1.ear_in_changes[u1.ear_in_last_index + 1].ts, u1.tsc)
                 THEN u1.ear_in_last_index + 1
                 ELSE u1.ear_in_last_index
        kept == [i \in 1 .. (n - index) |->
                    [u1.ear_in_changes[index + i] EXCEPT !.ts.vc = @ - VSL_COUNT]]
    IN  Ev([u1 EXCEPT !.earmic_out_changes = <<>>,
                      !.prev_earmic_data = u.last_earmic_data,
                      !.ear_in_changes = kept,
                      !.ear_in_last_index = 0],
           "cleanup_audio_frame_data")

\* Ula::cleanup_audio_frame_data
cleanup_audio_frame_data(u) ==
    LET last_ts == IF u.earmic_out_changes = <<>> THEN u.prev_earmic_ts
                   ELSE vts_to_tstates(u.earmic_out_changes[Len(u.earmic_out_changes)].ts)
        rd == read_ear_in(u, u.tsc)
        u1 == rd.ula
        n == Len(u1.ear_in_changes)
        index == IF u1.ear_in_last_index < n
                    /\ TsLeq(u1.ear_in_changes[u1.ear_in_last_index + 1].ts, u1.tsc)
                 THEN u1.ear_in_last_index + 1
                 ELSE u1.ear_in_last_index
        kept == [i \in 1 .. (n - index) |->
                    [u1.ear_in_changes[index + i] EXCEPT !.ts.vc = @ - VSL_COUNT]]
        u2 == [u1 EXCEPT !.prev_earmic_ts = saturating_sub(last_ts, FRAME_TSTATES_COUNT),
                         !.earmic_out_changes = <<>>,
                         !.prev_earmic_data = u.last_earmic_data,
                         !.prev_ear_in = rd.data]
    IN  IF index > n
        THEN \* len - index overflows, and copy_within(index.., 0) is out of range
             Ev(u2, "panic")
        ELSE Ev([u2 EXCEPT !.ear_in_changes = kept,
                           !.ear_in_last_index = 0],
                "cleanup_audio_frame_data")

\* BusDevice::next_frame / reset / update_timestamp of the attached bus
bus_next_frame(u, ts) == Ev([u EXCEPT !.bus.next_frame = ts], "bus.next_frame")
bus_reset(u, ts) == Ev([u EXCEPT !.bus.reset = ts], "bus.reset")
bus_update_timestamp(u, ts) ==
    Ev([u EXCEPT !.bus.update_timestamp = ts], "bus.update_timestamp")

\* VFrameTsCounter::wrap_frame
wrap_frame(ts) == VideoTs(ts.vc - VSL_COUNT, ts.hc)

\* Ula::prepare_next_frame; the returned counter is the returned Ula's tsc
prepare_next_frame_mut_wrap_first(u) ==
    LET w == wrap_frame(u.tsc)
        u1 == Ev([Ev(u, "prepare_next_frame") EXCEPT !.tsc = w], "wrap_frame")
        u2 == bus_next_frame(u1, w)
        u3 == Ev([u2 EXCEPT !.frames = wrapping_inc(@)], "frames += 1")
    IN  cleanup_audio_frame_data(cleanup_video_frame_data(u3))

prepare_next_frame(u) ==
    LET u1 == bus_next_frame(Ev(u, "prepare_next_frame"), u.tsc)
        u2 == Ev([u1 EXCEPT !.frames = wrapping_inc(@)], "frames += 1")
        u3 == cleanup_video_frame_data(u2)
        u4 == cleanup_audio_frame_data(u3)
    IN  Ev([u4 EXCEPT !.tsc = wrap_frame(u.tsc)], "wrap_frame")

\* UlaTimestamp::ensure_next_frame_vtsc
ensure_next_frame_vtsc_mut_always(u) == prepare_next_frame(u)

ensure_next_frame_vtsc(u) ==
    IF is_vts_eof(u.tsc) THEN prepare_next_frame(u) ELSE u

\* Video::set_border_color
set_border_color(u, border) ==
    IF u.last_border # border
    THEN [u EXCEPT !.border_out_changes = Append(@, [ts |-> u.tsc, data |-> border]),
                   !.last_border = border]
    ELSE u

\* Ula::update_frame_cache: which part of the frame cache a write to addr marks
update_frame_cache(u, addr, ts) ==
    IF addr >= 16384 /\ addr <= 22527 THEN [u EXCEPT !.frame_cache = @ \cup {"pixels"}]
    ELSE IF addr >= 22528 /\ addr <= 23295 THEN [u EXCEPT !.frame_cache = @ \cup {"colors"}]
    ELSE u

\* Io::write_io of the Ula for its own port (bit 0 of the port clear): the
\* border on bits 0..2, EAR/MIC out on bits 3..4
ula_write_io(u, data, ts) ==
    LET border == data % 8
        earmic == (data \div 8) % 4
        u1 == IF u.last_border # border
              THEN [u EXCEPT !.border_out_changes = Append(@, [ts |-> ts, data |-> border]),
                             !.last_border = border]
              ELSE u
    IN  IF u1.last_earmic_data # earmic
        THEN [u1 EXCEPT !.earmic_out_changes = Append(@, [ts |-> ts, data |-> earmic]),
                        !.last_earmic_data = earmic]
        ELSE u1

----------------------------------------------------------------------------
(* The Cpu as the ULA sees it: an external engine that consumes time, calls *)
(* back into the Ula and reports how it stopped.                            *)

MaxSkip == 2      \* how many stop points one Cpu call may pass at most
MaxLog == 1       \* entries kept per frame in the border and earmic logs
MaxFrames == 1    \* frames prepared per behaviour

CpuReset(pc) == [r |-> 0, halt |-> FALSE, pc |-> pc, panic |-> FALSE]

\* The HALT opcode: an M1 fetch at pc, then the halt flag is set.
CpuExecHalt(c) == [add_r(c, 1) EXCEPT !.halt = TRUE]

NMI_RESTART == 102
RST_00H_OPCODE == 199
CpuPcs == {0, 16384}
CpuRs == {0, 127}
\* the registers the modelled Cpu may be left with
CpuRegs == {[pc |-> 0, r |-> 0], [pc |-> 16384, r |-> 127]}

\* timestamps at which the modelled Cpu may stop or call back
InFrameStops == {VideoTs(vc, 100) : vc \in {100, 280}}
EofStops == {VideoTs(VSL_COUNT, -66), VideoTs(VSL_COUNT, 1)}
StopPoints == InFrameStops \cup EofStops

\* the k-th stop point after ts (the last one when fewer are left)
CpuAdvance(ts, k) ==
    LET later == {s \in StopPoints : TsLess(ts, s)}
        n == IF k < Cardinality(later) THEN k ELSE Cardinality(later)
    IN  IF later = {} THEN ts
        ELSE CHOOSE s \in later : Cardinality({x \in later : TsLess(x, s)}) = n - 1

\* bytes the Cpu writes to the ULA port, addresses it writes to
OutBytes == {7, 18}
MemAddrs == {16384}
NoData == -1

\* what one Cpu call did: how many stop points it passed, the R and PC it
\* left, the byte it wrote to the ULA port and the address it stored to (if any)
CpuOutcomes ==
    {[k |-> k, r |-> g.r, pc |-> g.pc, out |-> e[1], addr |-> e[2]] :
        k \in 1 .. MaxSkip, g \in CpuRegs,
        e \in ({<<b, NoData>> : b \in OutBytes \cup {NoData}}
                \cup {<<NoData, a>> : a \in MemAddrs})}

\* the Memory/Io callbacks of one Cpu call, at timestamp ts
cpu_callbacks(u, o, ts) ==
    LET u1 == IF o.addr = NoData THEN u ELSE update_frame_cache(u, o.addr, ts)
    IN  IF o.out = NoData THEN u1 ELSE ula_write_io(u1, o.out, ts)

\* UlaTimestamp::set_video_ts
set_video_ts(u, vts) == [u EXCEPT !.tsc = vts]

----------------------------------------------------------------------------
(* trait UlaCpuExt: chip/ula.rs *)

\* ula_execute_instruction: returns [ula, cpu, ret, cpu_ts, cpu_end]
ula_execute_instruction(u, c, code, o) ==
    LET e == Ev(ensure_next_frame_vtsc(u), "cpu.execute_instruction")
        vt == CpuAdvance(e.tsc, o.k)
        c1 == IF code = RST_00H_OPCODE
              THEN [c EXCEPT !.pc = 0, !.r = o.r, !.halt = FALSE]
              ELSE [c EXCEPT !.pc = o.pc, !.r = o.r, !.halt = FALSE]
    IN  [ula |-> set_video_ts(cpu_callbacks(e, o, vt), vt), cpu |-> c1,
         ret |-> "Ok", cpu_ts |-> e.tsc, cpu_end |-> vt, cpu_ret |-> "Ok"]

\* ula_reset
ula_reset_mut_clear_tsc(u, c, hard, o) ==
    IF hard
    THEN LET u1 == Ev(u, "cpu.reset")
             vts == VideoTs(0, 0)
         IN  [ula |-> bus_reset(set_video_ts(u1, vts), vts), cpu |-> CpuReset(0),
              ret |-> "none", cpu_ts |-> NoTs, cpu_end |-> NoTs, cpu_ret |-> "none"]
    ELSE ula_execute_instruction(u, c, RST_00H_OPCODE, o)

ula_reset(u, c, hard, o) ==
    IF hard
    THEN LET u1 == Ev(u, "cpu.reset")
             vts == u1.tsc
         IN  [ula |-> bus_reset(u1, vts), cpu |-> CpuReset(0),
              ret |-> "none", cpu_ts |-> NoTs, cpu_end |-> NoTs, cpu_ret |-> "none"]
    ELSE ula_execute_instruction(u, c, RST_00H_OPCODE, o)

\* ula_nmi: `accepted` is what cpu.nmi answers
ula_nmi_mut_no_ensure(u, c, accepted, o) ==
    LET e == Ev(u, "cpu.nmi")
        vt == IF accepted THEN CpuAdvance(e.tsc, o.k) ELSE e.tsc
        c1 == IF accepted
              THEN [c EXCEPT !.pc = NMI_RESTART, !.r = o.r, !.halt = FALSE]
              ELSE c
        u1 == IF accepted THEN cpu_callbacks(e, [o EXCEPT !.out = NoData], vt) ELSE e
    IN  [ula |-> set_video_ts(u1, vt), cpu |-> c1, ret |-> accepted,
         cpu_ts |-> e.tsc, cpu_end |-> vt, cpu_ret |-> accepted]

ula_nmi(u, c, accepted, o) ==
    LET e == Ev(ensure_next_frame_vtsc(u), "cpu.nmi")
        vt == IF accepted THEN CpuAdvance(e.tsc, o.k) ELSE e.tsc
        c1 == IF accepted
              THEN [c EXCEPT !.pc = NMI_RESTART, !.r = o.r, !.halt = FALSE]
              ELSE c
        u1 == IF accepted THEN cpu_callbacks(e, [o EXCEPT !.out = NoData], vt) ELSE e
    IN  [ula |-> set_video_ts(u1, vt), cpu |-> c1, ret |-> accepted,
         cpu_ts |-> e.tsc, cpu_end |-> vt, cpu_ret |-> accepted]

\* ula_execute_single_step: `res` is what cpu.execute_next answers
ula_execute_single_step(u, c, res, o) ==
    LET e == Ev(ensure_next_frame_vtsc(u), "cpu.execute_next")
        vt == CpuAdvance(e.tsc, o.k)
        c1 == [c EXCEPT !.pc = o.pc, !.r = o.r]
    IN  [ula |-> set_video_ts(cpu_callbacks(e, o, vt), vt), cpu |-> c1, ret |-> res,
         cpu_ts |-> e.tsc, cpu_end |-> vt, cpu_ret |-> res]

\* ula_execute_next_frame_with_breaks, up to the call of cpu.execute_with_limit
frame_pass_begin(u) == Ev(ensure_next_frame_vtsc(u), "cpu.execute_with_limit")

\* the tail without the call of bus.update_timestamp
frame_pass_tail_mut_no_bus_update(u, c, vt) ==
    [ula |-> set_video_ts(u, vt), cpu |-> c, ret |-> TRUE]

\* the tail of ula_execute_next_frame_with_breaks after the loop
frame_pass_tail(u, c, vt) ==
    [ula |-> bus_update_timestamp(set_video_ts(u, vt), vt), cpu |-> c, ret |-> TRUE]

\* ula_execute_next_frame_with_breaks from the return of cpu.execute_with_limit
\* with result res ("Ok" | "Halt" | "Break") and the counter at vt
frame_pass_tail_halted(u, ff) == frame_pass_tail(u, ff.cpu, ff.tsc)

frame_pass_end_mut_always_finish(u, c, res, vt) ==
    IF res = "Halt"
    THEN frame_pass_tail_halted(u, execute_halted_state_until_eof(vt, c))
    ELSE frame_pass_tail(u, c, vt)

frame_pass_end(u, c, res, vt) ==
    IF res = "Ok" THEN frame_pass_tail(u, c, vt)
    ELSE IF res = "Halt"
    THEN frame_pass_tail_halted(u, execute_halted_state_until_eof(vt, c))
    ELSE IF is_vts_eof(vt) THEN frame_pass_tail(u, c, vt)
    ELSE [ula |-> set_video_ts(u, vt), cpu |-> c, ret |-> FALSE]

----------------------------------------------------------------------------
(* The ControlUnit calls on the Ula: chip/ula.rs, impl ControlUnit for Ula *)

NoCall ==
    [op |-> "none", entry |-> NoTs, cpu_ts |-> NoTs, cpu_end |-> NoTs,
     cpu_ret |-> "none", ret |-> "none"]

StartCall(op) == [NoCall EXCEPT !.op = op, !.entry = ula.tsc, !.ret = "pending"]

\* ghost: the trace and the bus recorder start empty at every call
Fresh(u) == [u EXCEPT !.trace = <<>>, !.bus = UlaDefault.bus]

\* u64 values the frame counter may take when a frame is prepared
FrameBudget(u) ==
    \/ ~is_vts_eof(u.tsc)
    \/ u.frames = U64_MAX
    \/ \E n \in 0 .. (MaxFrames - 1) : u.frames = [U64_ZERO EXCEPT ![1] = n]

LogRoom(u) ==
    /\ Len(u.border_out_changes) < MaxLog
    /\ Len(u.earmic_out_changes) < MaxLog

\* a finished call: back at the caller
Return(r, c) ==
    /\ ula' = r.ula
    /\ cpu' = r.cpu
    /\ vtsc' = r.ula.tsc
    /\ ctl' = "idle"
    /\ call' = c

\* ControlUnit::execute_next_frame, up to the first cpu.execute_with_limit
ExecuteNextFrame ==
    /\ ctl = "idle"
    /\ FrameBudget(ula)
    /\ LET e == frame_pass_begin(Fresh(ula))
       IN  /\ ula' = e
           /\ vtsc' = e.tsc
           /\ call' = [StartCall("execute_next_frame") EXCEPT !.cpu_ts = e.tsc]
    /\ ctl' = "frame"
    /\ UNCHANGED cpu
    /\ UNCHANGED <<haltVars, bus, benchVars>>

\* inside cpu.execute_with_limit: instructions run, calling back into the Ula
CpuRuns ==
    /\ ctl = "frame"
    /\ ~is_vts_eof(vtsc)
    /\ LogRoom(ula)
    /\ \E o \in CpuOutcomes :
          LET vt == CpuAdvance(vtsc, o.k)
          IN  /\ ula' = cpu_callbacks(ula, o, vt)
              /\ vtsc' = vt
              /\ cpu' = [cpu EXCEPT !.pc = o.pc, !.r = o.r, !.halt = FALSE]
    /\ UNCHANGED <<ctl, call>>
    /\ UNCHANGED <<haltVars, bus, benchVars>>

\* the rest of `while !self.ula_execute_next_frame_with_breaks(cpu) {}` once
\* cpu.execute_with_limit has returned res with the counter at vt
NextPass(e, c, done) ==
    /\ ula' = e
    /\ cpu' = c
    /\ vtsc' = e.tsc
    /\ ctl' = "frame"
    /\ call' = [done EXCEPT !.cpu_ts = e.tsc]

FramePassReturned(r, done) ==
    IF r.ret
    THEN Return(r, [done EXCEPT !.ret = "returned"])
    ELSE NextPass(frame_pass_begin(r.ula), r.cpu, done)

FramePassReturns(u, c, res, vt) ==
    FramePassReturned(frame_pass_end(u, c, res, vt),
                      [call EXCEPT !.cpu_end = vt, !.cpu_ret = res])

\* cpu.execute_with_limit returns Ok(()): the limit VSL_COUNT is reached
CpuLimitReached ==
    /\ ctl = "frame"
    /\ \E s \in EofStops \cup {vtsc}, g \in CpuRegs :
          /\ IF is_vts_eof(vtsc) THEN s = vtsc ELSE s \in EofStops
          /\ FramePassReturns(ula, [cpu EXCEPT !.pc = g.pc, !.r = g.r], "Ok", s)
    /\ UNCHANGED <<haltVars, bus, benchVars>>

\* cpu.execute_with_limit returns Err(BreakCause::Halt): a HALT was fetched at h
CpuHalts ==
    /\ ctl = "frame"
    /\ ~is_vts_eof(vtsc)
    /\ \E h \in InFrameStops \cup {vtsc}, g \in CpuRegs :
          /\ h = vtsc \/ TsLess(vtsc, h)
          /\ FramePassReturns(ula,
                 CpuExecHalt([cpu EXCEPT !.pc = g.pc, !.r = g.r, !.halt = FALSE]),
                 "Halt", add_m1(h, g.pc))
    /\ UNCHANGED <<haltVars, bus, benchVars>>

\* cpu.execute_with_limit returns Err(WrIoBreak | RetiBreak)
CpuBreaks ==
    /\ ctl = "frame"
    /\ ~is_vts_eof(vtsc)
    /\ LogRoom(ula)
    /\ \E o \in CpuOutcomes :
          LET vt == CpuAdvance(vtsc, o.k)
          IN  FramePassReturns(cpu_callbacks(ula, o, vt),
                  [cpu EXCEPT !.pc = o.pc, !.r = o.r, !.halt = FALSE], "Break", vt)
    /\ UNCHANGED <<haltVars, bus, benchVars>>

\* ghost: a bool result as it is kept in the call record
BoolName(b) == IF b THEN "true" ELSE "false"

FinishedCall(op, r) ==
    [StartCall(op) EXCEPT !.cpu_ts = r.cpu_ts, !.cpu_end = r.cpu_end,
                          !.cpu_ret = r.cpu_ret, !.ret = r.ret]

\* ControlUnit::nmi
Nmi ==
    /\ ctl = "idle"
    /\ FrameBudget(ula)
    /\ \E accepted \in BOOLEAN, o \in CpuOutcomes :
          /\ o.out = NoData
          /\ LET r == ula_nmi(Fresh(ula), cpu, accepted, o)
             IN  Return(r, FinishedCall("nmi", [r EXCEPT !.ret = BoolName(@),
                                                         !.cpu_ret = BoolName(@)]))
    /\ UNCHANGED <<haltVars, bus, benchVars>>

\* ControlUnit::execute_single_step
ExecuteSingleStep ==
    /\ ctl = "idle"
    /\ FrameBudget(ula)
    /\ LogRoom(ula)
    /\ \E res \in {"Ok", "Break"}, o \in CpuOutcomes :
          LET r == ula_execute_single_step(Fresh(ula), cpu, res, o)
          IN  Return(r, FinishedCall("execute_single_step", r))
    /\ UNCHANGED <<haltVars, bus, benchVars>>

\* ControlUnit::reset
Reset ==
    /\ ctl = "idle"
    /\ \E hard \in BOOLEAN, o \in CpuOutcomes :
          /\ hard \/ FrameBudget(ula)
          /\ o.out = NoData
          /\ LET r == ula_reset(Fresh(ula), cpu, hard, o)
             IN  Return(r, FinishedCall(IF hard THEN "reset_hard" ELSE "reset_soft", r))
    /\ UNCHANGED <<haltVars, bus, benchVars>>

\* ControlUnit::ensure_next_frame
EnsureNextFrame ==
    /\ ctl = "idle"
    /\ FrameBudget(ula)
    /\ LET e == ensure_next_frame_vtsc(Fresh(ula))
       IN  Return([ula |-> e, cpu |-> cpu],
                  [StartCall("ensure_next_frame") EXCEPT !.ret = "returned"])
    /\ UNCHANGED <<haltVars, bus, benchVars>>

----------------------------------------------------------------------------
(* The bus device chain: bus/dynbus.rs, bus/ay.rs,                          *)
(* spectrusty_peripherals/src/bus/joystick.rs                               *)

MaxDevices == 2   \* dynamic devices in a DynamicBusDevice
MaxIndexOver == 2 \* global joystick indices tried above MAX_GLOBAL_INDEX

\* Option<(u8, Option<NonZeroU16>)> and Option<u8> (ws is always NoWs there)
NoWs == 0
NoneIo == [some |-> FALSE]
SomeIo(d, ws) == [some |-> TRUE, data |-> d, ws |-> ws]

BusBytes == {240, 31, 255}
BusTs == {0, 777}
BusPorts == {31, 127, 254, 61438, 63486, 65533, 49149}
AyPorts == {254, 65533, 49149}

\* what the next device D of a static link may answer to a read
DownReads == {NoneIo, SomeIo(240, 3)} \cup {SomeIo(d, NoWs) : d \in BusBytes}
DownReads8 == {NoneIo} \cup {SomeIo(d, NoWs) : d \in BusBytes}

\* impl PortAddress for {Kempston,Fuller,SinclairLeft,SinclairRight,Cursor}JoyPortAddress
PortAddresses == {"Kempston", "Fuller", "SinclairLeft", "SinclairRight", "Cursor"}
ADDRESS_MASK(P) ==
    CASE P = "Kempston" -> 32
      [] P = "Fuller" -> 255
      [] P = "SinclairLeft" -> 2048
      [] P = "SinclairRight" -> 4096
      [] P = "Cursor" -> 6144
ADDRESS_BITS(P) ==
    CASE P = "Kempston" -> 31
      [] P = "Fuller" -> 127
      [] P = "SinclairLeft" -> 63486
      [] P = "SinclairRight" -> 61438
      [] P = "Cursor" -> 59390

\* CursorJoyPortAddress::match_port
cursor_match_port_mut_any_bit(address) ==
    BitAnd(address, ADDRESS_MASK("Cursor")) # 0

cursor_match_port(address) ==
    BitAnd(address, ADDRESS_MASK("Cursor")) # ADDRESS_MASK("Cursor")

\* PortAddress::match_port, and its override for CursorJoyPortAddress
match_port(P, address) ==
    IF P = "Cursor"
    THEN cursor_match_port(address)
    ELSE BitAnd(address, ADDRESS_MASK(P)) = BitAnd(ADDRESS_BITS(P), ADDRESS_MASK(P))

\* JoystickBusDevice::read_io: bus_data is what self.bus.read_io answered
joystick_read_io_mut_no_and(P, joy_data, port, bus_data) ==
    IF match_port(P, port) THEN SomeIo(joy_data, NoWs) ELSE bus_data

joystick_read_io(P, joy_data, port, bus_data) ==
    IF match_port(P, port)
    THEN IF bus_data.some
         THEN SomeIo(BitAnd(bus_data.data, joy_data), bus_data.ws)
         ELSE SomeIo(joy_data, NoWs)
    ELSE bus_data

\* JoystickBusDevice::write_io: port_write is what joystick.port_write answers,
\* bus_ret what self.bus.write_io answers when it is called
joystick_write_io(P, port_write, port, bus_ret) ==
    IF match_port(P, port) /\ port_write
    THEN [ret |-> SomeIo(0, NoWs), forwarded |-> FALSE]
    ELSE [ret |-> bus_ret, forwarded |-> TRUE]

\* enum JoystickSelect: the variant and the state bytes that its joystick
\* devices answer to port_read (Default::default() devices answer 0)
JoystickVariants == {"Kempston", "Fuller", "Sinclair", "Cursor"}
JoystickSelectOf(variant) ==
    [variant |-> variant, joy |-> IF variant = "Sinclair" THEN <<0, 0>> ELSE <<0>>]
JoystickSelectDefault == JoystickSelectOf("Kempston")

\* Option<u8> of the joystick data in MultiJoystickBusDevice::read_io
NoneJoy == [some |-> FALSE]
SomeJoy(d) == [some |-> TRUE, data |-> d]

\* the match of MultiJoystickBusDevice::read_io answering with the left
\* Sinclair joystick alone when both are addressed
multi_joy_data_mut_left_only(joystick, port) ==
    CASE joystick.variant = "Kempston" /\ match_port("Kempston", port) ->
            SomeJoy(joystick.joy[1])
      [] joystick.variant = "Fuller" /\ match_port("Fuller", port) ->
            SomeJoy(joystick.joy[1])
      [] joystick.variant = "Sinclair" /\ match_port("SinclairLeft", port) ->
            SomeJoy(joystick.joy[1])
      [] joystick.variant = "Sinclair" /\ match_port("SinclairRight", port) ->
            SomeJoy(joystick.joy[2])
      [] joystick.variant = "Cursor" /\ match_port("Cursor", port) ->
            SomeJoy(joystick.joy[1])
      [] OTHER -> NoneJoy

\* the `match self.joystick` of MultiJoystickBusDevice::read_io
multi_joy_data(joystick, port) ==
    CASE joystick.variant = "Kempston" /\ match_port("Kempston", port) ->
            SomeJoy(joystick.joy[1])
      [] joystick.variant = "Fuller" /\ match_port("Fuller", port) ->
            SomeJoy(joystick.joy[1])
      [] joystick.variant = "Sinclair" ->
            LET joy_data1 == IF match_port("SinclairLeft", port)
                             THEN SomeJoy(joystick.joy[1]) ELSE NoneJoy
                joy_data2 == IF match_port("SinclairRight", port)
                             THEN SomeJoy(joystick.joy[2]) ELSE NoneJoy
            IN  IF joy_data1.some /\ joy_data2.some
                THEN SomeJoy(BitAnd(joy_data1.data, joy_data2.data))
                ELSE IF joy_data1.some THEN joy_data1
                ELSE IF joy_data2.some THEN joy_data2
                ELSE NoneJoy
      [] joystick.variant = "Cursor" /\ match_port("Cursor", port) ->
            SomeJoy(joystick.joy[1])
      [] OTHER -> NoneJoy

\* MultiJoystickBusDevice::read_io: bus_data is what self.bus.read_io answered
multi_read_io_mut_no_forward(joystick, port, bus_data) ==
    LET joy_data == multi_joy_data(joystick, port)
    IN  IF joy_data.some
        THEN IF bus_data.some
             THEN SomeIo(BitAnd(bus_data.data, joy_data.data), bus_data.ws)
             ELSE SomeIo(joy_data.data, NoWs)
        ELSE NoneIo

multi_read_io(joystick, port, bus_data) ==
    LET joy_data == multi_joy_data(joystick, port)
    IN  IF joy_data.some
        THEN IF bus_data.some
             THEN SomeIo(BitAnd(bus_data.data, joy_data.data), bus_data.ws)
             ELSE SomeIo(joy_data.data, NoWs)
        ELSE bus_data

\* MultiJoystickBusDevice does not define write_io: BusDevice::write_io, the
\* provided method, hands the write to the next device
multi_write_io(joystick, port, data, bus_ret) ==
    [joystick |-> joystick, ret |-> bus_ret, forwarded |-> TRUE]

\* JoystickSelect::new_with_index
MAX_GLOBAL_INDEX == 4
NoneSelect == [some |-> FALSE]
SomeSelect(joystick, n) == [some |-> TRUE, joystick |-> joystick, n |-> n]
new_with_index(global_index) ==
    CASE global_index = 0 -> SomeSelect(JoystickSelectOf("Kempston"), 0)
      [] global_index = 1 -> SomeSelect(JoystickSelectOf("Fuller"), 0)
      [] global_index \in {2, 3} ->
            SomeSelect(JoystickSelectOf("Sinclair"), global_index - 2)
      [] global_index = 4 -> SomeSelect(JoystickSelectOf("Cursor"), 0)
      [] OTHER -> NoneSelect

\* JoystickSelect::select_next_joystick: the new *self and the returned index
select_next_joystick_mut_skip_second(joystick, index) ==
    CASE joystick.variant = "Kempston" ->
            [joystick |-> JoystickSelectOf("Fuller"), index |-> 0]
      [] joystick.variant = "Fuller" ->
            [joystick |-> JoystickSelectOf("Sinclair"), index |-> 0]
      [] joystick.variant = "Sinclair" ->
            [joystick |-> JoystickSelectOf("Cursor"), index |-> 0]
      [] joystick.variant = "Cursor" ->
            [joystick |-> JoystickSelectOf("Kempston"), index |-> 0]

select_next_joystick(joystick, index) ==
    CASE joystick.variant = "Kempston" ->
            [joystick |-> JoystickSelectOf("Fuller"), index |-> 0]
      [] joystick.variant = "Fuller" ->
            [joystick |-> JoystickSelectOf("Sinclair"), index |-> 0]
      [] joystick.variant = "Sinclair" /\ index = 0 ->
            [joystick |-> joystick, index |-> 1]
      [] joystick.variant = "Sinclair" /\ index # 0 ->
            [joystick |-> JoystickSelectOf("Cursor"), index |-> 0]
      [] joystick.variant = "Cursor" ->
            [joystick |-> JoystickSelectOf("Kempston"), index |-> 0]

\* the joystick names of new_from_name, as sequences of character codes
NAME_KEMPSTON == <<75, 101, 109, 112, 115, 116, 111, 110>>   \* "Kempston"
NAME_FULLER == <<70, 117, 108, 108, 101, 114>>   \* "Fuller"
NAME_CURSOR == <<67, 117, 114, 115, 111, 114>>   \* "Cursor"
NAME_PROTEK == <<80, 114, 111, 116, 101, 107>>   \* "Protek"
NAME_AGF == <<65, 71, 70>>   \* "AGF"
NAME_SINCLAIR == <<83, 105, 110, 99, 108, 97, 105, 114>>   \* "Sinclair"
NAME_INTERFACE_II == <<73, 110, 116, 101, 114, 102, 97, 99, 101, 32, 73, 73>>   \* "Interface II"
NAME_INTERFACE_2 == <<73, 110, 116, 101, 114, 102, 97, 99, 101, 32, 50>>   \* "Interface 2"
NAME_IF_II == <<73, 70, 32, 73, 73>>   \* "IF II"
NAME_IF_2 == <<73, 70, 32, 50>>   \* "IF 2"

\* u8::to_ascii_lowercase and str::eq_ignore_ascii_case
to_ascii_lowercase(c) == IF c >= 65 /\ c <= 90 THEN c + 32 ELSE c
eq_ignore_ascii_case(a, b) ==
    /\ Len(a) = Len(b)
    /\ \A i \in 1 .. Len(a) : to_ascii_lowercase(a[i]) = to_ascii_lowercase(b[i])

\* JoystickSelect::new_from_name
new_from_name_mut_no_agf(name) ==
    IF eq_ignore_ascii_case(name, NAME_KEMPSTON)
    THEN SomeSelect(JoystickSelectOf("Kempston"), 1)
    ELSE IF eq_ignore_ascii_case(name, NAME_FULLER)
    THEN SomeSelect(JoystickSelectOf("Fuller"), 1)
    ELSE IF \/ eq_ignore_ascii_case(name, NAME_CURSOR)
            \/ eq_ignore_ascii_case(name, NAME_PROTEK)
    THEN SomeSelect(JoystickSelectOf("Cursor"), 1)
    ELSE IF \/ eq_ignore_ascii_case(name, NAME_SINCLAIR)
            \/ eq_ignore_ascii_case(name, NAME_INTERFACE_II)
            \/ eq_ignore_ascii_case(name, NAME_INTERFACE_2)
            \/ eq_ignore_ascii_case(name, NAME_IF_II)
            \/ eq_ignore_ascii_case(name, NAME_IF_2)
    THEN SomeSelect(JoystickSelectOf("Sinclair"), 2)
    ELSE NoneSelect

new_from_name(name) ==
    IF eq_ignore_ascii_case(name, NAME_KEMPSTON)
    THEN SomeSelect(JoystickSelectOf("Kempston"), 1)
    ELSE IF eq_ignore_ascii_case(name, NAME_FULLER)
    THEN SomeSelect(JoystickSelectOf("Fuller"), 1)
    ELSE IF \/ eq_ignore_ascii_case(name, NAME_CURSOR)
            \/ eq_ignore_ascii_case(name, NAME_PROTEK)
            \/ eq_ignore_ascii_case(name, NAME_AGF)
    THEN SomeSelect(JoystickSelectOf("Cursor"), 1)
    ELSE IF \/ eq_ignore_ascii_case(name, NAME_SINCLAIR)
            \/ eq_ignore_ascii_case(name, NAME_INTERFACE_II)
            \/ eq_ignore_ascii_case(name, NAME_INTERFACE_2)
            \/ eq_ignore_ascii_case(name, NAME_IF_II)
            \/ eq_ignore_ascii_case(name, NAME_IF_2)
    THEN SomeSelect(JoystickSelectOf("Sinclair"), 2)
    ELSE NoneSelect

\* impl FromStr / TryFrom<&str> for JoystickSelect: Ok(joy) or Err
ErrSelect == [ok |-> FALSE]
OkSelect(joy) == [ok |-> TRUE, joy |-> joy]
from_str(name) ==
    LET r == new_from_name(name)
    IN  IF r.some THEN OkSelect(r.joystick) ELSE ErrSelect
try_from(name) ==
    LET r == new_from_name(name)
    IN  IF r.some THEN OkSelect(r.joystick) ELSE ErrSelect

\* impl From<JoystickSelect> for &str
joystick_into_str(joy) ==
    CASE joy.variant = "Kempston" -> NAME_KEMPSTON
      [] joy.variant = "Fuller" -> NAME_FULLER
      [] joy.variant = "Sinclair" -> NAME_SINCLAIR
      [] joy.variant = "Cursor" -> NAME_CURSOR

\* the names given to the parser: every accepted name as written, in upper
\* case, in lower case and in alternating case, and names that differ from an
\* accepted one by a character dropped, added or changed
AcceptedNames ==
    {NAME_KEMPSTON, NAME_FULLER, NAME_CURSOR, NAME_PROTEK, NAME_AGF, NAME_SINCLAIR,
     NAME_INTERFACE_II, NAME_INTERFACE_2, NAME_IF_II, NAME_IF_2}
AsciiUpper(name) == [i \in DOMAIN name |->
                       IF name[i] >= 97 /\ name[i] <= 122 THEN name[i] - 32 ELSE name[i]]
AsciiLower(name) == [i \in DOMAIN name |-> to_ascii_lowercase(name[i])]
AsciiAlternate(name) == [i \in DOMAIN name |->
                           IF i % 2 = 0 THEN AsciiUpper(name)[i] ELSE AsciiLower(name)[i]]
RejectedNames ==
    {<<>>, <<32>>}
    \cup {SubSeq(n, 1, Len(n) - 1) : n \in AcceptedNames \ {NAME_INTERFACE_II, NAME_IF_II}}
    \cup {Append(n, 32) : n \in AcceptedNames}
    \cup {<<32>> \o n : n \in {NAME_KEMPSTON, NAME_IF_2}}
    \cup {Append(n, 73) : n \in {NAME_INTERFACE_II, NAME_IF_II}}
    \cup {[n EXCEPT ![Len(n)] = @ + 1] : n \in AcceptedNames}
    \cup {[n EXCEPT ![Len(n)] = @ + 32] : n \in {NAME_INTERFACE_2, NAME_IF_2}}
    \cup {[n EXCEPT ![1] = 8490] : n \in {NAME_KEMPSTON}}
NameInputs ==
    UNION {{n, AsciiUpper(n), AsciiLower(n), AsciiAlternate(n)} : n \in AcceptedNames}
    \cup RejectedNames

\* JoystickSelect::len
joystick_len(joystick) == IF joystick.variant = "Sinclair" THEN 2 ELSE 1

\* JoystickSelect::joystick_interface(index): whether it answers Some
joystick_interface(joystick, index) ==
    \/ joystick.variant \in {"Kempston", "Fuller", "Cursor"} /\ index = 0
    \/ joystick.variant = "Sinclair" /\ index \in {0, 1}

\* AyPortDecode of the 128k: select and data read on 0xFFFD, data write on 0xBFFD
AY_PORT_MASK == 49154
AY_PORT_SELECT == 49152
AY_PORT_DATA_READ == 49152
AY_PORT_DATA_WRITE == 32768
is_select(port) == BitAnd(port, AY_PORT_MASK) = AY_PORT_SELECT
is_data_read(port) == BitAnd(port, AY_PORT_MASK) = AY_PORT_DATA_READ
is_data_write(port) == BitAnd(port, AY_PORT_MASK) = AY_PORT_DATA_WRITE

\* Ay3_8891xIo: the selected register and the register file
AyIoDefault == [selected |-> 0, regs |-> [r \in 0 .. 15 |-> 0]]
data_port_read(ay_io) == ay_io.regs[ay_io.selected]
write_ay_io(ay_io, port, data) ==
    IF is_select(port)
    THEN [ay_io |-> [ay_io EXCEPT !.selected = data % 16], handled |-> TRUE]
    ELSE IF is_data_write(port)
    THEN [ay_io |-> [ay_io EXCEPT !.regs[ay_io.selected] = data], handled |-> TRUE]
    ELSE [ay_io |-> ay_io, handled |-> FALSE]

\* Ay3_891xBusDevice::read_io: bus_data is what self.bus.read_io answers when
\* it is called
ay_read_io(ay_io, port, bus_data) ==
    IF is_data_read(port)
    THEN [ret |-> SomeIo(data_port_read(ay_io), NoWs), forwarded |-> FALSE]
    ELSE [ret |-> bus_data, forwarded |-> TRUE]

\* Ay3_891xBusDevice::write_io
ay_write_io(ay_io, port, data, bus_ret) ==
    LET w == write_ay_io(ay_io, port, data)
    IN  IF w.handled
        THEN [ay_io |-> w.ay_io, ret |-> TRUE, forwarded |-> FALSE]
        ELSE [ay_io |-> ay_io, ret |-> bus_ret, forwarded |-> TRUE]

\* impl Default for EnvelopeControl / NoiseControl / ToneControl and the
\* derived Default of Ay3_8891xAudio
EnvelopeControlDefault == [period |-> 1, tick |-> 0, cycle |-> 0, level |-> 0]
NoiseControlDefault == [rng |-> 1, period |-> 0, tick |-> 0, low |-> FALSE]
ToneControlDefault == [period |-> 0, tick |-> 0, low |-> FALSE]
Ay3_8891xAudioDefault ==
    [current_ts |-> 0, last_levels |-> <<0, 0, 0>>, amp_levels |-> <<0, 0, 0>>,
     env_control |-> EnvelopeControlDefault, noise_control |-> NoiseControlDefault,
     tone_control |-> <<ToneControlDefault, ToneControlDefault, ToneControlDefault>>,
     mixer |-> 0]

\* Ay3_8891xAudio::reset
ay_sound_reset(ay_sound) == Ay3_8891xAudioDefault

\* Ay3_8910Io::reset
ay_io_reset(ay_io, timestamp) == AyIoDefault

\* Ay3_891xBusDevice::reset: the new state, the calls in their order and the
\* timestamps handed to ay_io and to the next device
ay_reset_mut_no_forward(ay_sound, ay_io, timestamp) ==
    [ay_sound |-> ay_sound_reset(ay_sound), ay_io |-> ay_io_reset(ay_io, timestamp),
     calls |-> <<"ay_sound.reset", "ay_io.reset">>,
     io_call |-> <<timestamp>>, down_call |-> <<>>]

ay_reset(ay_sound, ay_io, timestamp) ==
    [ay_sound |-> ay_sound_reset(ay_sound), ay_io |-> ay_io_reset(ay_io, timestamp),
     calls |-> <<"ay_sound.reset", "ay_io.reset", "bus.reset">>,
     io_call |-> <<timestamp>>, down_call |-> <<timestamp>>]

\* Ay3_891xBusDevice::next_frame
ay_next_frame(ay_sound, ay_io, timestamp) ==
    [ay_sound |-> ay_sound, ay_io |-> ay_io,
     calls |-> <<"ay_io.next_frame", "bus.next_frame">>,
     io_call |-> <<timestamp>>, down_call |-> <<timestamp>>]

\* Ay3_891xBusDevice does not define update_timestamp: the provided method of
\* BusDevice hands it to the next device
ay_update_timestamp(ay_sound, ay_io, timestamp) ==
    [ay_sound |-> ay_sound, ay_io |-> ay_io,
     calls |-> <<"bus.update_timestamp">>,
     io_call |-> <<>>, down_call |-> <<timestamp>>]

\* tests::TestDevice and NullDevice as dynamic devices
TestDeviceDefault == [kind |-> "TestDevice", foo |-> 0, data |-> 0]
NullDeviceDefault == [kind |-> "NullDevice", foo |-> 0, data |-> 0]
dev_read_io(dev, port, timestamp) ==
    IF dev.kind = "TestDevice" /\ dev.foo = timestamp
    THEN SomeIo(dev.data, NoWs) ELSE NoneIo
dev_write_io(dev, port, data, timestamp) ==
    IF dev.kind = "TestDevice"
    THEN [dev |-> [dev EXCEPT !.data = data, !.foo = timestamp], ret |-> TRUE]
    ELSE [dev |-> dev, ret |-> FALSE]

\* TestDevice::reset / update_timestamp; next_frame is the provided method,
\* which reaches only the device's own NullDevice
I32_MIN == -2147483647 - 1
dev_reset(dev, timestamp) ==
    IF dev.kind = "TestDevice" THEN [dev EXCEPT !.foo = I32_MIN + timestamp] ELSE dev
dev_update_timestamp(dev, timestamp) ==
    IF dev.kind = "TestDevice" THEN [dev EXCEPT !.foo = timestamp] ELSE dev
dev_next_frame(dev, timestamp) == dev
dev_notify(dev, op, timestamp) ==
    CASE op = "reset" -> dev_reset(dev, timestamp)
      [] op = "update_timestamp" -> dev_update_timestamp(dev, timestamp)
      [] op = "next_frame" -> dev_next_frame(dev, timestamp)

\* the loop of DynamicBusDevice::reset / update_timestamp / next_frame from
\* device i on, followed by the call on self.bus (device 0); offered is the
\* sequence of the calls made
RECURSIVE dyn_notify_loop_mut_first_only(_, _, _, _, _)
dyn_notify_loop_mut_first_only(devices, i, op, timestamp, offered) ==
    IF i > Len(devices) \/ i > 1
    THEN [devices |-> devices,
          offered |-> Append(offered, [dev |-> 0, ts |-> timestamp])]
    ELSE dyn_notify_loop_mut_first_only(
             [devices EXCEPT ![i] = dev_notify(@, op, timestamp)], i + 1, op,
             timestamp, Append(offered, [dev |-> i, ts |-> timestamp]))

RECURSIVE dyn_notify_loop(_, _, _, _, _)
dyn_notify_loop(devices, i, op, timestamp, offered) ==
    IF i > Len(devices)
    THEN [devices |-> devices,
          offered |-> Append(offered, [dev |-> 0, ts |-> timestamp])]
    ELSE dyn_notify_loop([devices EXCEPT ![i] = dev_notify(@, op, timestamp)],
                         i + 1, op, timestamp,
                         Append(offered, [dev |-> i, ts |-> timestamp]))

\* DynamicBusDevice::reset / update_timestamp / next_frame
dynbus_reset(devices, timestamp) ==
    dyn_notify_loop(devices, 1, "reset", timestamp, <<>>)
dynbus_update_timestamp(devices, timestamp) ==
    dyn_notify_loop(devices, 1, "update_timestamp", timestamp, <<>>)
dynbus_next_frame(devices, timestamp) ==
    dyn_notify_loop(devices, 1, "next_frame", timestamp, <<>>)

\* the loop of DynamicBusDevice::read_io from device i on; offered is the
\* sequence of the devices asked so far (0 is the terminal chain self.bus)
RECURSIVE dyn_read_loop_mut_overwrite(_, _, _, _, _, _)
dyn_read_loop_mut_overwrite(devices, i, port, timestamp, bus_data, offered) ==
    IF i > Len(devices) THEN [ret |-> bus_data, offered |-> offered]
    ELSE LET r == dev_read_io(devices[i], port, timestamp)
         IN  dyn_read_loop_mut_overwrite(devices, i + 1, port, timestamp,
                 IF r.some THEN SomeIo(r.data, NoWs) ELSE bus_data,
                 Append(offered, i))

RECURSIVE dyn_read_loop(_, _, _, _, _, _)
dyn_read_loop(devices, i, port, timestamp, bus_data, offered) ==
    IF i > Len(devices) THEN [ret |-> bus_data, offered |-> offered]
    ELSE LET r == dev_read_io(devices[i], port, timestamp)
         IN  dyn_read_loop(devices, i + 1, port, timestamp,
                 IF r.some
                 THEN SomeIo(BitAnd(r.data, IF bus_data.some THEN bus_data.data ELSE 255),
                             NoWs)
                 ELSE bus_data,
                 Append(offered, i))

\* DynamicBusDevice::read_io: term_data is what self.bus.read_io answers
dynbus_read_io(devices, port, timestamp, term_data) ==
    dyn_read_loop(devices, 1, port, timestamp, term_data, <<0>>)

\* the loop of DynamicBusDevice::write_io from device i on
RECURSIVE dyn_write_loop_mut_no_return(_, _, _, _, _, _, _)
dyn_write_loop_mut_no_return(devices, i, port, data, timestamp, term_ret, offered) ==
    IF i > Len(devices)
    THEN [devices |-> devices, ret |-> term_ret, offered |-> Append(offered, 0)]
    ELSE LET w == dev_write_io(devices[i], port, data, timestamp)
         IN  dyn_write_loop_mut_no_return([devices EXCEPT ![i] = w.dev], i + 1, port,
                 data, timestamp, term_ret \/ w.ret, Append(offered, i))

RECURSIVE dyn_write_loop(_, _, _, _, _, _, _)
dyn_write_loop(devices, i, port, data, timestamp, term_ret, offered) ==
    IF i > Len(devices)
    THEN [devices |-> devices, ret |-> term_ret, offered |-> Append(offered, 0)]
    ELSE LET w == dev_write_io(devices[i], port, data, timestamp)
         IN  IF w.ret
             THEN [devices |-> [devices EXCEPT ![i] = w.dev], ret |-> TRUE,
                   offered |-> Append(offered, i)]
             ELSE dyn_write_loop([devices EXCEPT ![i] = w.dev], i + 1, port, data,
                                 timestamp, term_ret, Append(offered, i))

\* DynamicBusDevice::write_io: term_ret is what self.bus.write_io answers when
\* it is called
dynbus_write_io(devices, port, data, timestamp, term_ret) ==
    dyn_write_loop(devices, 1, port, data, timestamp, term_ret, <<>>)

----------------------------------------------------------------------------
(* The chains under test and the calls of their host *)

NoLast == [op |-> "none"]
ProbeIdle == [kind |-> "none"]
AyIdle == [kind |-> "none"]
BusIdle == [chain |-> "none", last |-> NoLast]

\* DynamicBusDevice::append_device
DynAppendDevice ==
    /\ bus.chain = "dyn"
    /\ Len(bus.devices) < MaxDevices
    /\ \E d \in {TestDeviceDefault, NullDeviceDefault} :
          bus' = [bus EXCEPT !.devices = Append(@, d), !.last = [op |-> "append_device"]]
    /\ UNCHANGED <<haltVars, cpu, ulaVars, benchVars>>

\* DynamicBusDevice::remove_device
DynRemoveDevice ==
    /\ bus.chain = "dyn"
    /\ bus.devices # <<>>
    /\ bus' = [bus EXCEPT !.devices = SubSeq(@, 1, Len(@) - 1),
                          !.last = [op |-> "remove_device"]]
    /\ UNCHANGED <<haltVars, cpu, ulaVars, benchVars>>

\* as_device_mut::<TestDevice>(index) and assignments to its fields
DynSetDevice ==
    /\ bus.chain = "dyn"
    /\ \E i \in DOMAIN bus.devices, d \in BusBytes, foo \in BusTs :
          /\ bus.devices[i].kind = "TestDevice"
          /\ bus' = [bus EXCEPT !.devices[i].data = d, !.devices[i].foo = foo,
                                !.last = [op |-> "as_device_mut"]]
    /\ UNCHANGED <<haltVars, cpu, ulaVars, benchVars>>

DynReadIo ==
    /\ bus.chain = "dyn"
    /\ \E port \in {31, 254}, ts \in BusTs, term \in DownReads8 :
          LET r == dynbus_read_io(bus.devices, port, ts, term)
          IN  bus' = [bus EXCEPT !.last =
                        [op |-> "read_io", port |-> port, ts |-> ts, down |-> term,
                         ret |-> r.ret, offered |-> r.offered]]
    /\ UNCHANGED <<haltVars, cpu, ulaVars, benchVars>>

DynWriteIo ==
    /\ bus.chain = "dyn"
    /\ \E port \in {31, 254}, data \in BusBytes, ts \in BusTs, term \in BOOLEAN :
          LET r == dynbus_write_io(bus.devices, port, data, ts, term)
          IN  bus' = [bus EXCEPT !.devices = r.devices, !.last =
                        [op |-> "write_io", port |-> port, data |-> data, ts |-> ts,
                         down |-> term, ret |-> r.ret, offered |-> r.offered,
                         before |-> bus.devices]]
    /\ UNCHANGED <<haltVars, cpu, ulaVars, benchVars>>

\* the user moves the joystick: JoystickInterface of the joystick device
JoySetState ==
    /\ bus.chain = "joy"
    /\ \E d \in {31, 17, 0} :
          bus' = [bus EXCEPT !.joy_data = d, !.last = [op |-> "joystick"]]
    /\ UNCHANGED <<haltVars, cpu, ulaVars, benchVars>>

JoyReadIo ==
    /\ bus.chain = "joy"
    /\ \E port \in BusPorts, ts \in BusTs, down \in DownReads :
          bus' = [bus EXCEPT !.last =
                    [op |-> "read_io", port |-> port, ts |-> ts, down |-> down,
                     down_call |-> <<port, ts>>, before |-> bus.joy_data,
                     ret |-> joystick_read_io(bus.P, bus.joy_data, port, down)]]
    /\ UNCHANGED <<haltVars, cpu, ulaVars, benchVars>>

JoyWriteIo ==
    /\ bus.chain = "joy"
    /\ \E port \in BusPorts, data \in {31}, ts \in BusTs,
          down \in {NoneIo, SomeIo(0, NoWs)} :
          LET r == joystick_write_io(bus.P, bus.port_write, port, down)
          IN  bus' = [bus EXCEPT !.last =
                        [op |-> "write_io", port |-> port, data |-> data, ts |-> ts,
                         down |-> down, ret |-> r.ret, forwarded |-> r.forwarded,
                         down_call |-> IF r.forwarded THEN <<port, data, ts>> ELSE <<>>,
                         before |-> bus.joy_data]]
    /\ UNCHANGED <<haltVars, cpu, ulaVars, benchVars>>

AyReadIo ==
    /\ bus.chain = "ay"
    /\ \E port \in AyPorts, ts \in BusTs, down \in DownReads8 :
          LET r == ay_read_io(bus.ay_io, port, down)
          IN  bus' = [bus EXCEPT !.last =
                        [op |-> "read_io", port |-> port, ts |-> ts, down |-> down,
                         ret |-> r.ret, forwarded |-> r.forwarded,
                         down_call |-> IF r.forwarded THEN <<port, ts>> ELSE <<>>,
                         before |-> bus.ay_io]]
    /\ UNCHANGED <<haltVars, cpu, ulaVars, benchVars>>

AyWriteIo ==
    /\ bus.chain = "ay"
    /\ \E port \in AyPorts, data \in BusBytes, ts \in BusTs, down \in BOOLEAN :
          LET r == ay_write_io(bus.ay_io, port, data, down)
          IN  bus' = [bus EXCEPT !.ay_io = r.ay_io, !.last =
                        [op |-> "write_io", port |-> port, data |-> data, ts |-> ts,
                         down |-> down, ret |-> r.ret, forwarded |-> r.forwarded,
                         down_call |-> IF r.forwarded THEN <<port, data, ts>> ELSE <<>>,
                         before |-> bus.ay_io]]
    /\ UNCHANGED <<haltVars, cpu, ulaVars, benchVars>>

\* DynamicBusDevice::reset
DynReset ==
    /\ bus.chain = "dyn"
    /\ \E ts \in BusTs :
          LET r == dynbus_reset(bus.devices, ts)
          IN  bus' = [bus EXCEPT !.devices = r.devices, !.last =
                        [op |-> "reset", ts |-> ts, offered |-> r.offered,
                         before |-> bus.devices]]
    /\ UNCHANGED <<haltVars, cpu, ulaVars, benchVars>>

\* DynamicBusDevice::update_timestamp
DynUpdateTimestamp ==
    /\ bus.chain = "dyn"
    /\ \E ts \in BusTs :
          LET r == dynbus_update_timestamp(bus.devices, ts)
          IN  bus' = [bus EXCEPT !.devices = r.devices, !.last =
                        [op |-> "update_timestamp", ts |-> ts, offered |-> r.offered,
                         before |-> bus.devices]]
    /\ UNCHANGED <<haltVars, cpu, ulaVars, benchVars>>

\* DynamicBusDevice::next_frame
DynNextFrame ==
    /\ bus.chain = "dyn"
    /\ \E ts \in BusTs :
          LET r == dynbus_next_frame(bus.devices, ts)
          IN  bus' = [bus EXCEPT !.devices = r.devices, !.last =
                        [op |-> "next_frame", ts |-> ts, offered |-> r.offered,
                         before |-> bus.devices]]
    /\ UNCHANGED <<haltVars, cpu, ulaVars, benchVars>>

\* what a notification of the Ay3_891xBusDevice leaves behind
AyNotified(op, ts, r) ==
    bus' = [bus EXCEPT !.ay_sound = r.ay_sound, !.ay_io = r.ay_io, !.last =
              [op |-> op, ts |-> ts, calls |-> r.calls, io_call |-> r.io_call,
               down_call |-> r.down_call,
               before |-> [ay_sound |-> bus.ay_sound, ay_io |-> bus.ay_io]]]

\* Ay3_891xBusDevice::reset
AyReset ==
    /\ bus.chain = "ay"
    /\ \E ts \in BusTs : AyNotified("reset", ts, ay_reset(bus.ay_sound, bus.ay_io, ts))
    /\ UNCHANGED <<haltVars, cpu, ulaVars, benchVars>>

\* Ay3_891xBusDevice::next_frame
AyNextFrame ==
    /\ bus.chain = "ay"
    /\ \E ts \in BusTs :
          AyNotified("next_frame", ts, ay_next_frame(bus.ay_sound, bus.ay_io, ts))
    /\ UNCHANGED <<haltVars, cpu, ulaVars, benchVars>>

\* BusDevice::update_timestamp on an Ay3_891xBusDevice
AyUpdateTimestamp ==
    /\ bus.chain = "ay"
    /\ \E ts \in BusTs :
          AyNotified("update_timestamp", ts,
                     ay_update_timestamp(bus.ay_sound, bus.ay_io, ts))
    /\ UNCHANGED <<haltVars, cpu, ulaVars, benchVars>>

\* the user moves a joystick of the selected variant: joystick_interface(index)
MultiSetState ==
    /\ bus.chain = "multi"
    /\ \E index \in {0, 1}, d \in {31, 17, 0} :
          /\ joystick_interface(bus.joystick, index)
          /\ bus' = [bus EXCEPT !.joystick.joy[index + 1] = d,
                                !.last = [op |-> "joystick"]]
    /\ UNCHANGED <<haltVars, cpu, ulaVars, benchVars>>

\* the host selects the next joystick with the index it holds
MultiSelectNext ==
    /\ bus.chain = "multi"
    /\ LET r == select_next_joystick(bus.joystick, bus.index)
       IN  bus' = [bus EXCEPT !.joystick = r.joystick, !.index = r.index,
                     !.last = [op |-> "select_next_joystick",
                               before |-> bus.joystick, index |-> bus.index]]
    /\ UNCHANGED <<haltVars, cpu, ulaVars, benchVars>>

\* the host replaces the joystick by JoystickSelect::new_with_index(global_index)
\* and keeps the index it returns
MultiNewWithIndex ==
    /\ bus.chain = "multi"
    /\ \E global_index \in 0 .. (MAX_GLOBAL_INDEX + MaxIndexOver) :
          LET r == new_with_index(global_index)
          IN  bus' = [bus EXCEPT
                        !.joystick = IF r.some THEN r.joystick ELSE @,
                        !.index = IF r.some THEN r.n ELSE @,
                        !.last = [op |-> "new_with_index",
                                  global_index |-> global_index, ret |-> r]]
    /\ UNCHANGED <<haltVars, cpu, ulaVars, benchVars>>

\* the host parses a joystick name and, when it is accepted, installs the
\* joystick: new_from_name, name.parse() and JoystickSelect::try_from(name)
MultiNewFromName ==
    /\ bus.chain = "multi"
    /\ \E name \in NameInputs :
          LET r == new_from_name(name)
          IN  bus' = [bus EXCEPT
                        !.joystick = IF r.some THEN r.joystick ELSE @,
                        !.index = IF r.some THEN 0 ELSE @,
                        !.last = [op |-> "new_from_name", name |-> name, ret |-> r,
                                  from_str |-> from_str(name),
                                  try_from |-> try_from(name)]]
    /\ UNCHANGED <<haltVars, cpu, ulaVars, benchVars>>

\* the joystick is converted into its name and parsed back (serde: into =
\* "&str", try_from = "&str")
MultiNameRoundTrip ==
    /\ bus.chain = "multi"
    /\ LET name == joystick_into_str(bus.joystick)
           r == try_from(name)
       IN  bus' = [bus EXCEPT
                     !.joystick = IF r.ok THEN r.joy ELSE @,
                     !.last = [op |-> "name_round_trip", name |-> name, ret |-> r,
                               before |-> bus.joystick]]
    /\ UNCHANGED <<haltVars, cpu, ulaVars, benchVars>>

MultiReadIo ==
    /\ bus.chain = "multi"
    /\ \E port \in BusPorts, ts \in BusTs, down \in DownReads :
          bus' = [bus EXCEPT !.last =
                    [op |-> "read_io", port |-> port, ts |-> ts, down |-> down,
                     down_call |-> <<port, ts>>, before |-> bus.joystick,
                     ret |-> multi_read_io(bus.joystick, port, down)]]
    /\ UNCHANGED <<haltVars, cpu, ulaVars, benchVars>>

MultiWriteIo ==
    /\ bus.chain = "multi"
    /\ \E port \in BusPorts, data \in {31}, ts \in BusTs,
          down \in {NoneIo, SomeIo(0, NoWs)} :
          LET r == multi_write_io(bus.joystick, port, data, down)
          IN  bus' = [bus EXCEPT !.joystick = r.joystick, !.last =
                        [op |-> "write_io", port |-> port, data |-> data, ts |-> ts,
                         down |-> down, ret |-> r.ret, forwarded |-> r.forwarded,
                         down_call |-> IF r.forwarded THEN <<port, data, ts>> ELSE <<>>,
                         before |-> bus.joystick]]
    /\ UNCHANGED <<haltVars, cpu, ulaVars, benchVars>>

----------------------------------------------------------------------------
(* The test bench of tests::test_ula_contended_halt / ula_works *)

\* ula.execute_next_frame(&mut cpu): the HALT is fetched, the Cpu breaks with
\* BreakCause::Halt and the rest of the frame is fast-forwarded.
\* The stepping clone fetches the same HALT.
HaltFrameFast ==
    /\ hphase = "start"
    /\ LET ts == add_m1(ula_tsc, cpu.pc)
           ff == execute_halted_state_until_eof(ts, CpuExecHalt(cpu))
       IN  /\ ula_tsc' = ff.tsc
           /\ cpu' = ff.cpu
           /\ ff_branch' = IF is_contended_address(cpu.pc) /\ ts.vc < VSL_PIXELS_END
                           THEN "contended" ELSE "plain"
    /\ tsc1' = add_m1(tsc1, cpu1.pc)
    /\ cpu1' = CpuExecHalt(cpu1)
    /\ hphase' = "stepping"
    /\ UNCHANGED halt_pc
    /\ UNCHANGED <<ulaVars, bus, benchVars>>

\* one halted M1 cycle of the clone: execute_with_limit up to VSL_COUNT, then
\* execute_next while hc < 0
HaltStepM1 ==
    /\ hphase = "stepping"
    /\ ~(tsc1.vc >= VSL_COUNT /\ tsc1.hc >= 0)
    /\ tsc1' = add_m1(tsc1, cpu1.pc)
    /\ cpu1' = add_r(cpu1, 1)
    /\ UNCHANGED <<hphase, halt_pc, ula_tsc, cpu, ff_branch>>
    /\ UNCHANGED <<ulaVars, bus, benchVars>>

HaltStepDone ==
    /\ hphase = "stepping"
    /\ tsc1.vc >= VSL_COUNT /\ tsc1.hc >= 0
    /\ hphase' = "done"
    /\ UNCHANGED <<halt_pc, ula_tsc, cpu, tsc1, cpu1, ff_branch>>
    /\ UNCHANGED <<ulaVars, bus, benchVars>>


----------------------------------------------------------------------------
(* Specifications *)

\* the ULA frame engine driven by its caller and by the Cpu
Init ==
    /\ ula \in {UlaDefault, [UlaDefault EXCEPT !.frames = U64_MAX]}
    /\ ctl = "idle"
    /\ vtsc = ula.tsc
    /\ call = NoCall
    /\ cpu = CpuReset(0)
    /\ hphase = "off"
    /\ halt_pc = 0
    /\ ula_tsc = VideoTs(0, 0)
    /\ tsc1 = VideoTs(0, 0)
    /\ cpu1 = CpuReset(0)
    /\ ff_branch = "none"
    /\ bus = BusIdle
    /\ probe = ProbeIdle
    /\ ay = AyIdle

Next ==
    \/ ExecuteNextFrame
    \/ CpuRuns
    \/ CpuLimitReached
    \/ CpuHalts
    \/ CpuBreaks
    \/ Nmi
    \/ ExecuteSingleStep
    \/ Reset
    \/ EnsureNextFrame

Spec == Init /\ [][Next]_vars

\* the halted-frame test bench: every start (vc, hc) of the frame, a HALT in
\* uncontended and in contended memory
HaltInit ==
    /\ hphase = "start"
    /\ halt_pc \in {0, 16384}
    /\ \E vc \in 0 .. (VSL_COUNT - 1), hc \in HTS_RANGE :
          /\ ula_tsc = VideoTs(vc, hc)
          /\ tsc1 = VideoTs(vc, hc)
    /\ cpu = CpuReset(halt_pc)
    /\ cpu1 = CpuReset(halt_pc)
    /\ ff_branch = "none"
    /\ ula = UlaDefault
    /\ ctl = "idle"
    /\ vtsc = VideoTs(0, 0)
    /\ call = NoCall
    /\ bus = BusIdle
    /\ probe = ProbeIdle
    /\ ay = AyIdle

HaltNext ==
    \/ HaltFrameFast
    \/ HaltStepM1
    \/ HaltStepDone

SpecHalt == HaltInit /\ [][HaltNext]_vars

\* the bus device chains driven by their host: DynamicBusDevice::default(),
\* JoystickBusDevice::default() per port address and joystick device,
\* MultiJoystickBusDevice::default(), Ay3_891xBusDevice::default() and an
\* Ay3_891xBusDevice whose ay_sound has rendered a mixer register change
BusInit ==
    /\ bus \in {[chain |-> "dyn", devices |-> <<>>, last |-> NoLast],
                [chain |-> "ay", ay_sound |-> Ay3_8891xAudioDefault,
                 ay_io |-> AyIoDefault, last |-> NoLast],
                [chain |-> "ay", ay_sound |-> [Ay3_8891xAudioDefault EXCEPT !.mixer = 56],
                 ay_io |-> AyIoDefault, last |-> NoLast],
                [chain |-> "multi", joystick |-> JoystickSelectDefault, index |-> 0,
                 last |-> NoLast],
                [chain |-> "multi", joystick |-> JoystickSelectOf("Sinclair"),
                 index |-> 5, last |-> NoLast]}
               \cup {[chain |-> "joy", P |-> P, joy_data |-> 0, port_write |-> w,
                      last |-> NoLast] : P \in PortAddresses, w \in BOOLEAN}
    /\ probe = ProbeIdle
    /\ ay = AyIdle
    /\ ula = UlaDefault
    /\ ctl = "idle"
    /\ vtsc = VideoTs(0, 0)
    /\ call = NoCall
    /\ cpu = CpuReset(0)
    /\ hphase = "off"
    /\ halt_pc = 0
    /\ ula_tsc = VideoTs(0, 0)
    /\ tsc1 = VideoTs(0, 0)
    /\ cpu1 = CpuReset(0)
    /\ ff_branch = "none"

BusNext ==
    \/ DynAppendDevice
    \/ DynRemoveDevice
    \/ DynSetDevice
    \/ DynReadIo
    \/ DynWriteIo
    \/ JoySetState
    \/ JoyReadIo
    \/ JoyWriteIo
    \/ AyReadIo
    \/ AyWriteIo
    \/ DynReset
    \/ DynUpdateTimestamp
    \/ DynNextFrame
    \/ AyReset
    \/ AyNextFrame
    \/ AyUpdateTimestamp
    \/ MultiSetState
    \/ MultiSelectNext
    \/ MultiNewWithIndex
    \/ MultiNewFromName
    \/ MultiNameRoundTrip
    \/ MultiReadIo
    \/ MultiWriteIo

SpecBus == BusInit /\ [][BusNext]_vars

----------------------------------------------------------------------------
(* Claims *)

\* C1: fast-forwarding the halted state ends the frame with the same tsc and
\* the same Cpu (R register, halt flag) as stepping the halted M1 cycles.
C1_HaltedEquivalence ==
    hphase = "done" => (tsc1 = ula_tsc /\ cpu1 = cpu)

\* the frame of a HALT fetched from contended memory has been fast-forwarded
\* through the contended lines and stepped to its end by the clone
C1_Witness ==
    /\ hphase = "done"
    /\ halt_pc = 16384
    /\ ff_branch = "contended"
    /\ cpu.halt /\ ~cpu.panic
    /\ cpu.r > 1

----------------------------------------------------------------------------
(* Claims on the frame engine, under Spec *)

EnsuringOps ==
    {"execute_next_frame", "nmi", "execute_single_step", "reset_soft",
     "ensure_next_frame"}
CpuEvents ==
    {"cpu.execute_with_limit", "cpu.nmi", "cpu.execute_next",
     "cpu.execute_instruction", "cpu.reset"}
Positions(tr, S) == {i \in DOMAIN tr : tr[i] \in S}
PrepareTrace ==
    <<"prepare_next_frame", "bus.next_frame", "frames += 1",
      "cleanup_video_frame_data", "cleanup_audio_frame_data", "wrap_frame">>
Prepared(u) == Positions(u.trace, {"prepare_next_frame"}) # {}

\* y = x + 1 modulo 2^64, limb by limb
U64IsSucc(x, y) ==
    \E i \in 1 .. 5 :
       /\ \A j \in 1 .. 4 : j < i => (x[j] = LIMB - 1 /\ y[j] = 0)
       /\ i <= 4 => (x[i] < LIMB - 1 /\ y[i] = x[i] + 1)
       /\ \A j \in 1 .. 4 : j > i => y[j] = x[j]

\* C2: a call that ensures the next frame runs prepare_next_frame exactly once,
\* and completes it before any Cpu call, when tsc is EOF at entry; it does not
\* run prepare_next_frame when tsc is not EOF at entry.
C2_PrepareOnceBeforeCpu ==
    call.op \in EnsuringOps =>
        LET prep == Positions(ula.trace, {"prepare_next_frame"})
            wrap == Positions(ula.trace, {"wrap_frame"})
            cpus == Positions(ula.trace, CpuEvents)
        IN  IF is_vts_eof(call.entry)
            THEN /\ Cardinality(prep) = 1
                 /\ Cardinality(wrap) = 1
                 /\ \A i \in prep \cup wrap, j \in cpus : i < j
            ELSE prep = {} /\ wrap = {}

\* execute_next_frame entered at (312, 0) has prepared the frame once and then
\* run the Cpu in more than one pass
C2_Witness ==
    /\ call.op = "execute_next_frame"
    /\ ctl = "idle"
    /\ call.entry = VideoTs(VSL_COUNT, 0)
    /\ Cardinality(Positions(ula.trace, {"prepare_next_frame"})) = 1
    /\ Cardinality(Positions(ula.trace, {"cpu.execute_with_limit"})) >= 2

C3_PrepareStep ==
    (/\ ctl = "idle"
     /\ call'.op \in {"ensure_next_frame", "execute_next_frame"}
     /\ is_vts_eof(ula.tsc))
    => /\ SubSeq(ula'.trace, 1, Len(PrepareTrace)) = PrepareTrace
       /\ ula'.bus.next_frame = ula.tsc
       /\ U64IsSucc(ula.frames, ula'.frames)
       /\ ula'.border_out_changes = <<>>
       /\ ula'.earmic_out_changes = <<>>
       /\ ula'.frame_cache = {}
       /\ ula'.border = ula.last_border
       /\ ula'.tsc.vc = ula.tsc.vc - VSL_COUNT
       /\ ula'.tsc.hc = ula.tsc.hc
       /\ vts_to_tstates(ula'.tsc) = vts_to_tstates(ula.tsc) - FRAME_TSTATES_COUNT

\* C3: prepare_next_frame calls bus.next_frame with the un-wrapped timestamp,
\* then increments frames by one modulo 2^64, then clears the border log, the
\* earmic-out log and the frame cache (the border of the new frame being the
\* last border colour), then reduces tsc.vc by VSL_COUNT, hc unchanged.
C3_PrepareNextFrame == [][C3_PrepareStep]_vars

\* a frame with border and earmic changes has been prepared away, the frame
\* counter wrapping from 2^64 - 1 to 0
C3_Witness ==
    /\ call.op = "ensure_next_frame"
    /\ ula.trace = PrepareTrace
    /\ ula.frames = U64_ZERO
    /\ ula.border = 2
    /\ ula.prev_earmic_data = 2
    /\ is_vts_eof(ula.bus.next_frame)

\* C4 (amended): a break before the end of the frame ends only the pass
\* (ula_execute_next_frame_with_breaks writes the timestamp back and bus.
\* update_timestamp is not called); execute_next_frame then runs the next pass
\* from that timestamp and returns to its caller only at EOF, after
\* bus.update_timestamp(tsc); a break at or after EOF completes the frame.
C4_BreakEndsPassOnly ==
    call.op = "execute_next_frame" =>
        /\ ctl = "idle" =>
              /\ call.ret = "returned"
              /\ is_vts_eof(ula.tsc)
              /\ ula.tsc = call.cpu_end \/ call.cpu_ret = "Halt"
              /\ ula.bus.update_timestamp = ula.tsc
        /\ (ctl = "idle" /\ call.cpu_ret = "Break") => is_vts_eof(call.cpu_end)
        /\ ctl = "frame" => ula.bus.update_timestamp = NoTs
        /\ (ctl = "frame" /\ call.cpu_ret = "Break") =>
              /\ ~is_vts_eof(call.cpu_end)
              /\ ula.tsc = call.cpu_end
              /\ call.cpu_ts = call.cpu_end
              /\ Cardinality(Positions(ula.trace, {"cpu.execute_with_limit"})) >= 2

\* execute_next_frame has returned at EOF after a pass ended by a break in the
\* frame
C4_Witness ==
    /\ call.op = "execute_next_frame"
    /\ ctl = "idle"
    /\ call.cpu_ret = "Break"
    /\ Cardinality(Positions(ula.trace, {"cpu.execute_with_limit"})) >= 2
    /\ ula.bus.update_timestamp = ula.tsc

\* C4 as stated: a break before the end of the frame makes execute_next_frame
\* return to its caller with tsc not advanced to EOF.
C4_Original ==
    (/\ call.op = "execute_next_frame"
     /\ call.cpu_ret = "Break"
     /\ ~is_vts_eof(call.cpu_end))
    => (ctl = "idle" /\ ~is_vts_eof(ula.tsc))

C5_ResetStep ==
    /\ (ctl = "idle" /\ call'.op = "reset_hard") =>
          /\ cpu' = CpuReset(0)
          /\ ula'.trace = <<"cpu.reset", "bus.reset">>
          /\ ula'.tsc = ula.tsc
          /\ ula'.bus.reset = ula.tsc
          /\ ula'.frames = ula.frames
    /\ (ctl = "idle" /\ call'.op = "reset_soft") =>
          /\ ula'.bus.reset = NoTs
          /\ Positions(ula'.trace, {"bus.reset", "cpu.reset"}) = {}
          /\ ula'.trace[Len(ula'.trace)] = "cpu.execute_instruction"
          /\ Prepared(ula') <=> is_vts_eof(ula.tsc)
          /\ ~is_vts_eof(call'.cpu_ts)
          /\ ula'.tsc = call'.cpu_end
          /\ cpu'.pc = 0

\* C5 (amended): a hard reset resets the Cpu and calls bus.reset with the
\* current tsc, which it leaves unchanged; a soft reset executes RST 00h through
\* ula_execute_instruction (preparing the next frame first when tsc is EOF) and
\* does not reset the bus devices.
C5_Reset == [][C5_ResetStep]_vars

\* a hard reset at the end of a frame: tsc is still EOF and was given to bus.reset
C5_Witness ==
    /\ call.op = "reset_hard"
    /\ is_vts_eof(ula.tsc)
    /\ ula.bus.reset = ula.tsc
    /\ cpu = CpuReset(0)

\* C5 as stated: after a hard reset tsc is the frame start and bus.reset was
\* called with the frame start.
C5_Original ==
    call.op = "reset_hard" =>
        (ula.tsc = VideoTs(0, 0) /\ ula.bus.reset = VideoTs(0, 0))

C6_Step ==
    (ctl = "idle" /\ call'.op \in {"nmi", "execute_single_step"}) =>
        LET cpu_call == IF call'.op = "nmi" THEN "cpu.nmi" ELSE "cpu.execute_next"
        IN  /\ Prepared(ula') <=> is_vts_eof(ula.tsc)
            /\ Prepared(ula') => SubSeq(ula'.trace, 1, Len(PrepareTrace)) = PrepareTrace
            /\ Positions(ula'.trace, CpuEvents) = {Len(ula'.trace)}
            /\ ula'.trace[Len(ula'.trace)] = cpu_call
            /\ call'.cpu_ts = IF is_vts_eof(ula.tsc) THEN wrap_frame(ula.tsc) ELSE ula.tsc
            /\ ~is_vts_eof(call'.cpu_ts)
            /\ ula'.tsc = call'.cpu_end
            /\ call'.ret = call'.cpu_ret
            /\ (call'.op = "nmi" /\ call'.ret = "true") => cpu'.pc = NMI_RESTART

\* C6: nmi and execute_single_step first make the frame live (prepare_next_frame
\* iff tsc is EOF), then call the Cpu with the live frame counter, write the
\* advanced timestamp back into tsc and return the Cpu's result; an NMI at EOF
\* reaches the Cpu in the new frame.
C6_NmiAndSingleStep == [][C6_Step]_vars

\* an NMI requested at EOF has been accepted in the new frame
C6_Witness ==
    /\ call.op = "nmi"
    /\ is_vts_eof(call.entry)
    /\ call.ret = "true"
    /\ Prepared(ula)
    /\ cpu.pc = NMI_RESTART
    /\ ~is_vts_eof(ula.tsc)

----------------------------------------------------------------------------
(* Claims on the bus device chain, under SpecBus *)

\* bit i of a byte, and the byte whose bits are those set in every byte of S
Bit(d, i) == (d \div (2 ^ i)) % 2
AndAll(S) ==
    LET b(i) == IF \A d \in S : Bit(d, i) = 1 THEN 2 ^ i ELSE 0
    IN  b(0) + b(1) + b(2) + b(3) + b(4) + b(5) + b(6) + b(7)

\* C7: reading a port matched by an Ay3_891xBusDevice (a data-read port) and
\* by a device further down the chain yields the AND of the AY data byte and
\* the downstream data byte.
C7_AyWiredAnd ==
    (/\ bus.chain = "ay"
     /\ bus.last.op = "read_io"
     /\ is_data_read(bus.last.port)
     /\ bus.last.down.some)
    => bus.last.ret = SomeIo(AndAll({data_port_read(bus.ay_io), bus.last.down.data}), NoWs)

\* C8: JoystickBusDevice.read_io on a matching port returns the downstream data
\* ANDed with the joystick state and the downstream wait states when the
\* downstream chain returns Some, and (joystick state, None) when it returns
\* None; Kempston 0x1F over 0xF0 at port 0x001F yields 0x10.
C8_JoystickWiredAnd ==
    (/\ bus.chain = "joy"
     /\ bus.last.op = "read_io"
     /\ match_port(bus.P, bus.last.port))
    => /\ IF bus.last.down.some
          THEN bus.last.ret = SomeIo(AndAll({bus.last.down.data, bus.joy_data}),
                                     bus.last.down.ws)
          ELSE bus.last.ret = SomeIo(bus.joy_data, NoWs)
       /\ (/\ bus.P = "Kempston"
           /\ bus.last.port = 31
           /\ bus.joy_data = 31
           /\ bus.last.down.some
           /\ bus.last.down.data = 240)
          => bus.last.ret.data = 16

\* a Kempston joystick returning 0x1F has been read at port 0x001F over a
\* downstream device returning 0xF0 with wait states
C8_Witness ==
    /\ bus.chain = "joy"
    /\ bus.P = "Kempston"
    /\ bus.joy_data = 31
    /\ bus.last.op = "read_io"
    /\ bus.last.port = 31
    /\ bus.last.down = SomeIo(240, 3)
    /\ bus.last.ret = SomeIo(16, 3)

Permute(seq, f) == [i \in DOMAIN seq |-> seq[f[i]]]

\* C9: DynamicBusDevice.read_io offers the read to the terminal chain and to
\* every dynamic device; it returns None iff none of them returns data, and
\* otherwise the AND of the data of all that did, whatever the order of the
\* dynamic devices.
C9_DynamicRead ==
    (bus.chain = "dyn" /\ bus.last.op = "read_io") =>
        LET devs == bus.devices
            l == bus.last
            answers == {i \in DOMAIN devs : dev_read_io(devs[i], l.port, l.ts).some}
            datas == {dev_read_io(devs[i], l.port, l.ts).data : i \in answers}
                     \cup (IF l.down.some THEN {l.down.data} ELSE {})
        IN  /\ l.offered = <<0>> \o [i \in DOMAIN devs |-> i]
            /\ l.ret.some <=> datas # {}
            /\ l.ret.some => l.ret = SomeIo(AndAll(datas), NoWs)
            /\ \A f \in Permutations(DOMAIN devs) :
                  dynbus_read_io(Permute(devs, f), l.port, l.ts, l.down).ret = l.ret

\* two dynamic devices and the terminal chain have answered a read with
\* different bytes
C9_Witness ==
    /\ bus.chain = "dyn"
    /\ bus.last.op = "read_io"
    /\ Len(bus.devices) = 2
    /\ \A i \in DOMAIN bus.devices :
          dev_read_io(bus.devices[i], bus.last.port, bus.last.ts).some
    /\ bus.devices[1].data = 240
    /\ bus.devices[2].data = 31
    /\ bus.last.down = SomeIo(255, NoWs)
    /\ bus.last.ret = SomeIo(16, NoWs)

\* C10: DynamicBusDevice.write_io offers the write to the dynamic devices in
\* insertion order and stops at the first that handles it, the later devices
\* and the terminal chain not seeing it; the terminal chain gets it only when
\* no dynamic device handled it. A joystick or AY link that consumes a write
\* does not forward it.
C10_WriteConsumedByFirst ==
    /\ (bus.chain = "dyn" /\ bus.last.op = "write_io") =>
          LET l == bus.last
              n == Len(l.before)
              handlers == {i \in 1 .. n :
                              dev_write_io(l.before[i], l.port, l.data, l.ts).ret}
          IN  IF handlers = {}
              THEN /\ l.offered = [i \in 1 .. (n + 1) |-> IF i <= n THEN i ELSE 0]
                   /\ l.ret = l.down
                   /\ bus.devices = l.before
              ELSE LET first == CHOOSE i \in handlers : \A j \in handlers : i <= j
                   IN  /\ l.offered = [i \in 1 .. first |-> i]
                       /\ l.ret = TRUE
                       /\ \A i \in 1 .. n : i # first => bus.devices[i] = l.before[i]
                       /\ bus.devices[first].data = l.data
    /\ (bus.chain = "joy" /\ bus.last.op = "write_io") =>
          LET consumed == match_port(bus.P, bus.last.port) /\ bus.port_write
          IN  /\ consumed <=> ~bus.last.forwarded
              /\ consumed => bus.last.ret = SomeIo(0, NoWs)
              /\ ~consumed => bus.last.ret = bus.last.down
    /\ (bus.chain = "ay" /\ bus.last.op = "write_io") =>
          LET consumed == is_select(bus.last.port) \/ is_data_write(bus.last.port)
          IN  /\ consumed <=> ~bus.last.forwarded
              /\ consumed => bus.last.ret = TRUE
              /\ ~consumed => bus.last.ret = bus.last.down

\* the first of two TestDevices has consumed a write that the second one and a
\* terminal chain willing to handle it never saw
C10_Witness ==
    /\ bus.chain = "dyn"
    /\ bus.last.op = "write_io"
    /\ Len(bus.devices) = 2
    /\ \A i \in 1 .. 2 : bus.devices[i].kind = "TestDevice"
    /\ bus.last.offered = <<1>>
    /\ bus.last.down = TRUE
    /\ bus.devices[1].data = bus.last.data
    /\ bus.devices[2].data # bus.last.data
    /\ bus.devices[2].foo # bus.last.ts

\* whether the selected variant of a MultiJoystickBusDevice decodes the port
MultiMatches(joystick, port) ==
    CASE joystick.variant = "Sinclair" ->
            match_port("SinclairLeft", port) \/ match_port("SinclairRight", port)
      [] OTHER -> match_port(joystick.variant, port)

\* C11: a read or a write of JoystickBusDevice, MultiJoystickBusDevice or
\* Ay3_891xBusDevice on a port the device does not match calls the next device
\* with the same port, data and timestamp, returns what the next device
\* returned and leaves the device's own state as it was.
C11_UnmatchedForwards ==
    /\ (bus.chain = "joy" /\ bus.last.op \in {"read_io", "write_io"}
            /\ ~match_port(bus.P, bus.last.port)) =>
          /\ bus.last.ret = bus.last.down
          /\ bus.last.down_call =
                IF bus.last.op = "read_io" THEN <<bus.last.port, bus.last.ts>>
                ELSE <<bus.last.port, bus.last.data, bus.last.ts>>
          /\ bus.joy_data = bus.last.before
    /\ (bus.chain = "multi" /\ bus.last.op \in {"read_io", "write_io"}
            /\ ~MultiMatches(bus.last.before, bus.last.port)) =>
          /\ bus.last.ret = bus.last.down
          /\ bus.last.down_call =
                IF bus.last.op = "read_io" THEN <<bus.last.port, bus.last.ts>>
                ELSE <<bus.last.port, bus.last.data, bus.last.ts>>
          /\ bus.joystick = bus.last.before
    /\ (bus.chain = "ay" /\ bus.last.op = "read_io" /\ ~is_data_read(bus.last.port)) =>
          /\ bus.last.ret = bus.last.down
          /\ bus.last.down_call = <<bus.last.port, bus.last.ts>>
          /\ bus.ay_io = bus.last.before
    /\ (bus.chain = "ay" /\ bus.last.op = "write_io"
            /\ ~is_select(bus.last.port) /\ ~is_data_write(bus.last.port)) =>
          /\ bus.last.ret = bus.last.down
          /\ bus.last.down_call = <<bus.last.port, bus.last.data, bus.last.ts>>
          /\ bus.ay_io = bus.last.before

\* a Sinclair pair with both joysticks moved has been read on a port that
\* neither of them decodes, over a next device answering with wait states
C11_Witness ==
    /\ bus.chain = "multi"
    /\ bus.joystick.variant = "Sinclair"
    /\ bus.joystick.joy = <<31, 17>>
    /\ bus.last.op = "read_io"
    /\ bus.last.port = 65533
    /\ bus.last.down = SomeIo(240, 3)
    /\ bus.last.ret = SomeIo(240, 3)

\* C12: reset, update_timestamp and next_frame of a DynamicBusDevice call every
\* dynamic device in insertion order and then the terminal chain, all with the
\* timestamp given; Ay3_891xBusDevice.reset resets ay_sound and ay_io and then
\* resets the next device, its next_frame notifies ay_io and then the next
\* device, and update_timestamp reaches the next device, with the same timestamp.
C12_NotifyEveryDevice ==
    /\ (bus.chain = "dyn" /\ bus.last.op \in {"reset", "update_timestamp", "next_frame"}) =>
          LET l == bus.last
              n == Len(l.before)
          IN  /\ l.offered = [i \in 1 .. (n + 1) |->
                                [dev |-> IF i <= n THEN i ELSE 0, ts |-> l.ts]]
              /\ Len(bus.devices) = n
              /\ \A i \in 1 .. n :
                    IF l.before[i].kind = "TestDevice" /\ l.op # "next_frame"
                    THEN bus.devices[i] =
                           [l.before[i] EXCEPT !.foo = IF l.op = "reset"
                                                       THEN I32_MIN + l.ts ELSE l.ts]
                    ELSE bus.devices[i] = l.before[i]
    /\ (bus.chain = "ay" /\ bus.last.op = "reset") =>
          /\ bus.last.calls = <<"ay_sound.reset", "ay_io.reset", "bus.reset">>
          /\ bus.last.io_call = <<bus.last.ts>>
          /\ bus.last.down_call = <<bus.last.ts>>
          /\ bus.ay_sound = Ay3_8891xAudioDefault
          /\ bus.ay_io = AyIoDefault
    /\ (bus.chain = "ay" /\ bus.last.op = "next_frame") =>
          /\ bus.last.calls = <<"ay_io.next_frame", "bus.next_frame">>
          /\ bus.last.io_call = <<bus.last.ts>>
          /\ bus.last.down_call = <<bus.last.ts>>
          /\ bus.ay_sound = bus.last.before.ay_sound
    /\ (bus.chain = "ay" /\ bus.last.op = "update_timestamp") =>
          /\ bus.last.down_call = <<bus.last.ts>>
          /\ bus.ay_sound = bus.last.before.ay_sound
          /\ bus.ay_io = bus.last.before.ay_io

\* two TestDevices holding different timestamps have both been reset, in
\* insertion order and before the terminal chain, with the timestamp 777
C12_Witness ==
    /\ bus.chain = "dyn"
    /\ bus.last.op = "reset"
    /\ bus.last.ts = 777
    /\ Len(bus.devices) = 2
    /\ \A i \in 1 .. 2 : bus.devices[i].kind = "TestDevice"
    /\ bus.last.before[1].foo # bus.last.before[2].foo
    /\ \A i \in 1 .. 2 : bus.devices[i].foo = I32_MIN + 777
    /\ bus.last.offered = <<[dev |-> 1, ts |-> 777], [dev |-> 2, ts |-> 777],
                            [dev |-> 0, ts |-> 777]>>

\* the joysticks in the order of their global index
JoystickCycle ==
    <<[variant |-> "Kempston", index |-> 0], [variant |-> "Fuller", index |-> 0],
      [variant |-> "Sinclair", index |-> 0], [variant |-> "Sinclair", index |-> 1],
      [variant |-> "Cursor", index |-> 0]>>
Selected(joystick, index) == [variant |-> joystick.variant, index |-> index]

\* select_next_joystick applied k times, each call given the index returned
\* by the one before
RECURSIVE SelectNextTimes(_, _, _)
SelectNextTimes(joystick, index, k) ==
    IF k = 0 THEN Selected(joystick, index)
    ELSE LET r == select_next_joystick(joystick, index)
         IN  SelectNextTimes(r.joystick, r.index, k - 1)

\* C13: select_next_joystick, fed with the index it returned, visits
\* (Kempston,0), (Fuller,0), (Sinclair,0), (Sinclair,1), (Cursor,0) and
\* (Kempston,0) again, with period 5, from whatever variant it starts; the
\* order is that of new_with_index, which maps 0..4 to these five and any
\* larger index to None.
C13_SelectNextCycle ==
    /\ (bus.chain = "multi" /\ bus.last.op = "select_next_joystick") =>
          LET now == Selected(bus.joystick, bus.index)
              was == Selected(bus.last.before, bus.last.index)
          IN  /\ \E i \in 1 .. 5 : now = JoystickCycle[i]
              /\ \A i \in 1 .. 5 : was = JoystickCycle[i] => now = JoystickCycle[(i % 5) + 1]
              /\ \A i \in 1 .. 5 : now = JoystickCycle[i] =>
                    \A k \in 1 .. 5 :
                       SelectNextTimes(bus.joystick, bus.index, k) =
                          JoystickCycle[((i + k - 1) % 5) + 1]
    /\ (bus.chain = "multi" /\ bus.last.op = "new_with_index") =>
          LET g == bus.last.global_index
          IN  IF g <= 4
              THEN /\ bus.last.ret.some
                   /\ Selected(bus.last.ret.joystick, bus.last.ret.n) = JoystickCycle[g + 1]
                   /\ Selected(bus.joystick, bus.index) = JoystickCycle[g + 1]
              ELSE ~bus.last.ret.some

\* the selection has gone round: from the second Sinclair joystick over
\* Cursor back to Kempston
C13_Witness ==
    /\ bus.chain = "multi"
    /\ bus.last.op = "select_next_joystick"
    /\ bus.last.before.variant = "Cursor"
    /\ Selected(bus.joystick, bus.index) = JoystickCycle[1]
    /\ SelectNextTimes(bus.joystick, bus.index, 3) = JoystickCycle[4]

\* the accepted joystick names in lower case, each with its variant
JoystickNames ==
    {
      [name |-> <<107, 101, 109, 112, 115, 116, 111, 110>>, variant |-> "Kempston"],   \* "kempston"
      [name |-> <<102, 117, 108, 108, 101, 114>>, variant |-> "Fuller"],   \* "fuller"
      [name |-> <<99, 117, 114, 115, 111, 114>>, variant |-> "Cursor"],   \* "cursor"
      [name |-> <<112, 114, 111, 116, 101, 107>>, variant |-> "Cursor"],   \* "protek"
      [name |-> <<97, 103, 102>>, variant |-> "Cursor"],   \* "agf"
      [name |-> <<115, 105, 110, 99, 108, 97, 105, 114>>, variant |-> "Sinclair"],   \* "sinclair"
      [name |-> <<105, 110, 116, 101, 114, 102, 97, 99, 101, 32, 105, 105>>, variant |-> "Sinclair"],   \* "interface ii"
      [name |-> <<105, 110, 116, 101, 114, 102, 97, 99, 101, 32, 50>>, variant |-> "Sinclair"],   \* "interface 2"
      [name |-> <<105, 102, 32, 105, 105>>, variant |-> "Sinclair"],   \* "if ii"
      [name |-> <<105, 102, 32, 50>>, variant |-> "Sinclair"]   \* "if 2"
    }
FoldCase(name) == [i \in DOMAIN name |->
                     IF name[i] \in 65 .. 90 THEN name[i] + 32 ELSE name[i]]
NamedVariants(name) == {e.variant : e \in {x \in JoystickNames : x.name = FoldCase(name)}}

\* C14: new_from_name, FromStr and TryFrom<&str> accept, whatever the ASCII
\* case, exactly the names Kempston, Fuller, Cursor, Protek, AGF, Sinclair,
\* Interface II, Interface 2, IF II and IF 2, and answer the variant of the
\* name with its number of joysticks (2 for Sinclair, 1 otherwise, which is
\* len()); any other name gives None or an error; the name a variant converts
\* into parses back into the same variant.
C14_NameParsing ==
    /\ (bus.chain = "multi" /\ bus.last.op = "new_from_name") =>
          LET l == bus.last
              vs == NamedVariants(l.name)
          IN  /\ l.ret.some <=> vs # {}
              /\ l.from_str.ok <=> vs # {}
              /\ l.try_from.ok <=> vs # {}
              /\ l.ret.some =>
                    /\ vs = {l.ret.joystick.variant}
                    /\ l.ret.n = IF l.ret.joystick.variant = "Sinclair" THEN 2 ELSE 1
                    /\ l.ret.n = joystick_len(l.ret.joystick)
                    /\ l.from_str.joy = l.ret.joystick
                    /\ l.try_from.joy = l.ret.joystick
                    /\ bus.joystick = l.ret.joystick
    /\ (bus.chain = "multi" /\ bus.last.op = "name_round_trip") =>
          /\ bus.last.ret.ok
          /\ bus.last.ret.joy.variant = bus.last.before.variant
          /\ bus.joystick.variant = bus.last.before.variant

\* "iNtErFaCe Ii" has been parsed into the Sinclair pair of two joysticks
C14_Witness ==
    /\ bus.chain = "multi"
    /\ bus.last.op = "new_from_name"
    /\ bus.last.name = AsciiAlternate(NAME_INTERFACE_II)
    /\ bus.last.name # NAME_INTERFACE_II
    /\ bus.last.ret = SomeSelect(JoystickSelectOf("Sinclair"), 2)
    /\ bus.joystick.variant = "Sinclair"

----------------------------------------------------------------------------
(* The joystick port decoders on every 16-bit address:
   spectrusty_peripherals/src/bus/joystick.rs *)

U16 == 0 .. 65535

\* the decoders of the five PortAddress types applied to probe.address
MatchPort ==
    /\ probe.kind = "port"
    /\ ~probe.done
    /\ probe' = [probe EXCEPT
                    !.done = TRUE,
                    !.matched = {P \in PortAddresses : match_port(P, probe.address)}]
    /\ UNCHANGED <<haltVars, cpu, ulaVars, bus, ay>>

PortInit ==
    /\ probe \in {[kind |-> "port", address |-> a, done |-> FALSE, matched |-> {}] :
                    a \in U16}
    /\ ula = UlaDefault
    /\ ctl = "idle"
    /\ vtsc = ula.tsc
    /\ call = NoCall
    /\ cpu = CpuReset(0)
    /\ hphase = "off"
    /\ halt_pc = 0
    /\ ula_tsc = VideoTs(0, 0)
    /\ tsc1 = VideoTs(0, 0)
    /\ cpu1 = CpuReset(0)
    /\ ff_branch = "none"
    /\ bus = BusIdle
    /\ ay = AyIdle

PortNext ==
    \/ MatchPort

SpecPort == PortInit /\ [][PortNext]_vars

\* C15: the Cursor decoder accepts an address exactly when its bits 11 and 12
\* are not both set (addr & 0x1800 # 0x1800): it accepts 0xEFFE, 0xF7FE and
\* 0xE7FE, rejects 0xFFFE, and accepts every address that the left or the
\* right Sinclair decoder accepts.
C15_CursorMatcher ==
    (probe.kind = "port" /\ probe.done) =>
        LET a == probe.address
            cursor == "Cursor" \in probe.matched
        IN  /\ cursor <=> ~((a \div 2048) % 2 = 1 /\ (a \div 4096) % 2 = 1)
            /\ a \in {61438, 63486, 59390} => cursor
            /\ a = 65534 => ~cursor
            /\ "SinclairLeft" \in probe.matched => cursor
            /\ "SinclairRight" \in probe.matched => cursor

\* 0xF7FE, the left Sinclair port, has been decoded: the left Sinclair and the
\* Cursor decoder accept it, the right Sinclair decoder does not
C15_Witness ==
    /\ probe.kind = "port"
    /\ probe.done
    /\ probe.address = 63486
    /\ probe.matched = {"SinclairLeft", "Cursor"}

----------------------------------------------------------------------------
(* The AY-3-891x sound generators: audio/ay.rs *)

RECURSIVE BitXor(_, _)
\* Bitwise XOR of two non-negative integers.
BitXor(a, b) ==
    IF a = 0 THEN b
    ELSE IF b = 0 THEN a
    ELSE ((a + b) % 2) + 2 * BitXor(a \div 2, b \div 2)

\* Bitwise OR of two non-negative integers.
BitOr(a, b) == a + b - BitAnd(a, b)

ENV_SHAPE_CONT_MASK == 8
ENV_SHAPE_ATTACK_MASK == 4
ENV_SHAPE_ALT_MASK == 2
ENV_SHAPE_HOLD_MASK == 1
ENV_LEVEL_REV_MASK == 128
ENV_LEVEL_MOD_MASK == 64
ENV_LEVEL_MASK == 15
ENV_CYCLE_MASK == 240
NOISE_PERIOD_MASK == 31
TONE_PERIOD_MASK == 4095

\* AmpLevel::set
amp_level_set(level) == BitAnd(level, 31)

\* EnvelopeControl::set_shape
set_shape(env, shape) ==
    [env EXCEPT
        !.tick = 0,
        !.cycle = BitAnd(shape, 255 - ENV_CYCLE_MASK),
        !.level = IF BitAnd(shape, ENV_SHAPE_ATTACK_MASK) # 0
                  THEN ENV_LEVEL_MOD_MASK
                  ELSE BitOr(BitOr(ENV_LEVEL_MOD_MASK, ENV_LEVEL_REV_MASK), ENV_LEVEL_MASK)]

\* EnvelopeControl::set_period
env_set_period(env, period0) ==
    LET period == IF period0 = 0 THEN 1 ELSE period0
    IN  [env EXCEPT
            !.period = period,
            !.tick = IF env.tick >= period THEN env.tick % period ELSE env.tick]

\* EnvelopeControl::set_period_fine
env_set_period_fine(env, perlo) ==
    env_set_period(env, BitOr(BitAnd(env.period, 65280), perlo))

\* EnvelopeControl::set_period_coarse: u16::from_le_bytes([period as u8, perhi])
env_set_period_coarse(env, perhi) ==
    env_set_period(env, (env.period % 256) + 256 * perhi)

\* EnvelopeControl::update_level, the shape's part: what becomes of the level
\* when the 16-step counter in the high nibble of cycle has wrapped
env_cycle_wrapped_mut_no_hold(cycle, level) ==
    IF BitAnd(cycle, ENV_SHAPE_CONT_MASK) = 0 THEN 0
    ELSE IF BitAnd(cycle, ENV_SHAPE_ALT_MASK) # 0
    THEN BitXor(level, BitOr(ENV_LEVEL_REV_MASK, ENV_LEVEL_MASK))
    ELSE level

env_cycle_wrapped(cycle, level) ==
    IF BitAnd(cycle, ENV_SHAPE_CONT_MASK) = 0 THEN 0
    ELSE IF BitAnd(cycle, ENV_SHAPE_HOLD_MASK) # 0
    THEN IF BitAnd(cycle, ENV_SHAPE_ALT_MASK) = 0
         THEN BitXor(level, BitOr(ENV_LEVEL_MOD_MASK, ENV_LEVEL_MASK))
         ELSE BitXor(level, ENV_LEVEL_MOD_MASK)
    ELSE IF BitAnd(cycle, ENV_SHAPE_ALT_MASK) # 0
    THEN BitXor(level, BitOr(ENV_LEVEL_REV_MASK, ENV_LEVEL_MASK))
    ELSE level

\* EnvelopeControl::update_level, one step of the 4-bit volume
env_level_step(level) ==
    BitOr(BitAnd(level, 255 - ENV_LEVEL_MASK),
          BitAnd(IF BitAnd(level, ENV_LEVEL_REV_MASK) = 0
                 THEN (level + 1) % 256
                 ELSE (level + 255) % 256,
                 ENV_LEVEL_MASK))

\* EnvelopeControl::update_level with the period elapsed and the modulation on
env_level_modulate(env, tick) ==
    LET cycle == (env.cycle + 16) % 256
        stepped == env_level_step(env.level)
        level == IF BitAnd(cycle, ENV_CYCLE_MASK) = 0
                 THEN env_cycle_wrapped(cycle, stepped)
                 ELSE stepped
    IN  [env |-> [env EXCEPT !.level = level, !.cycle = cycle,
                             !.tick = (tick + 1) % 65536],
         ret |-> BitAnd(level, ENV_LEVEL_MASK)]

\* EnvelopeControl::update_level taking the period as elapsed one tick early
update_level_mut_early(env) ==
    IF env.tick + 1 >= env.period /\ BitAnd(env.level, ENV_LEVEL_MOD_MASK) # 0
    THEN env_level_modulate(env, 0)
    ELSE [env |-> [env EXCEPT !.tick = (env.tick + 1) % 65536],
          ret |-> BitAnd(env.level, ENV_LEVEL_MASK)]

\* EnvelopeControl::update_level: the control after the call and the level
\* returned
update_level(env) ==
    IF env.tick >= env.period /\ BitAnd(env.level, ENV_LEVEL_MOD_MASK) # 0
    THEN env_level_modulate(env, env.tick - env.period)
    ELSE [env |-> [env EXCEPT !.tick = ((IF env.tick >= env.period
                                         THEN env.tick - env.period
                                         ELSE env.tick) + 1) % 65536],
          ret |-> BitAnd(env.level, ENV_LEVEL_MASK)]

\* NoiseControl::set_period
noise_set_period(noise, period0) ==
    LET masked == BitAnd(period0, NOISE_PERIOD_MASK)
        period == IF masked = 0 THEN 1 ELSE masked
    IN  [noise EXCEPT
            !.period = period,
            !.tick = IF noise.tick >= period THEN noise.tick % period ELSE noise.tick]

\* ToneControl::set_period leaving the tick as it is
tone_set_period_mut_no_reduce(tone, period0) ==
    LET masked == BitAnd(period0, TONE_PERIOD_MASK)
    IN  [tone EXCEPT !.period = IF masked = 0 THEN 1 ELSE masked]

\* ToneControl::set_period
tone_set_period(tone, period0) ==
    LET masked == BitAnd(period0, TONE_PERIOD_MASK)
        period == IF masked = 0 THEN 1 ELSE masked
    IN  [tone EXCEPT
            !.period = period,
            !.tick = IF tone.tick >= period * 2
                     THEN tone.tick % (period * 2) ELSE tone.tick]

\* ToneControl::set_period_fine
tone_set_period_fine(tone, perlo) ==
    tone_set_period(tone, BitOr(BitAnd(tone.period, 65280), perlo))

\* ToneControl::set_period_coarse: u16::from_le_bytes([period as u8, perhi])
tone_set_period_coarse(tone, perhi) ==
    tone_set_period(tone, (tone.period % 256) + 256 * perhi)

\* the AyRegister numbers: tone fine/coarse A, B, C are 0..5, noise 6, mixer 7,
\* amplitudes 8..10, envelope period fine 11 and coarse 12, envelope shape 13
AyRegisters == 0 .. 15

\* Ay3_8891xAudio::update_register
update_register(chip, reg, val) ==
    CASE reg \in {0, 2, 4} ->
            [chip EXCEPT !.tone_control[(reg \div 2) + 1] = tone_set_period_fine(@, val)]
      [] reg \in {1, 3, 5} ->
            [chip EXCEPT !.tone_control[(reg \div 2) + 1] = tone_set_period_coarse(@, val)]
      [] reg = 6 -> [chip EXCEPT !.noise_control = noise_set_period(@, val)]
      [] reg = 7 -> [chip EXCEPT !.mixer = val]
      [] reg \in {8, 9, 10} -> [chip EXCEPT !.amp_levels[reg - 7] = amp_level_set(val)]
      [] reg = 11 -> [chip EXCEPT !.env_control = env_set_period_fine(@, val)]
      [] reg = 12 -> [chip EXCEPT !.env_control = env_set_period_coarse(@, val)]
      [] reg = 13 -> [chip EXCEPT !.env_control = set_shape(@, val)]
      [] OTHER -> chip

\* ---- the generators under test: one part of the chip at a time
MaxEnvPeriod == 2

\* the part of the chip whose registers are written
AyParts == {"env", "A", "B", "C", "rest"}
PartRegisters(part) ==
    CASE part = "env" -> {11, 12, 13}
      [] part = "A" -> {0, 1}
      [] part = "B" -> {2, 3}
      [] part = "C" -> {4, 5}
      [] part = "rest" -> {6, 7, 8, 9, 10, 14}
\* the values written to a register
RegisterValues(reg) ==
    CASE reg = 13 -> 0 .. 15 \cup {25, 254}
      [] reg \in {11, 12} -> {0, 1, 2, 255}
      [] reg \in 0 .. 5 -> {0, 1, 2, 31, 255}
      [] OTHER -> {0, 17, 255}

NoLevel == -1
Untracked == -1

\* (ghost) the number of update_level calls made since set_shape, as long as
\* the period has been 1 and no period register was written between the calls;
\* the sequences have settled into a cycle of 32 calls after the first 32
CallsAfter(calls) ==
    IF calls = Untracked THEN Untracked
    ELSE IF calls = 64 THEN 33
    ELSE calls + 1
CallsAfterWrite(calls, reg, env) ==
    CASE reg = 13 -> IF env.period = 1 THEN 0 ELSE Untracked
      [] reg \in {11, 12} -> IF calls = 0 /\ env.period = 1 THEN 0 ELSE Untracked
      [] OTHER -> calls

UpdateRegister ==
    /\ ay.kind = "chip"
    /\ \E reg \in PartRegisters(ay.part) : \E val \in RegisterValues(reg) :
          LET chip == update_register(ay.chip, reg, val)
          IN  ay' = [ay EXCEPT
                        !.chip = chip,
                        !.regs[reg] = val,
                        !.written = @ \cup {reg},
                        !.op = "update_register",
                        !.shape = IF reg = 13 THEN val ELSE @,
                        !.calls = CallsAfterWrite(@, reg, chip.env_control),
                        !.ret = NoLevel]
    /\ UNCHANGED <<haltVars, cpu, ulaVars, bus, probe>>

EnvUpdateLevel ==
    /\ ay.kind = "chip"
    /\ ay.part = "env"
    /\ ay.chip.env_control.period <= MaxEnvPeriod
    /\ LET r == update_level(ay.chip.env_control)
       IN  ay' = [ay EXCEPT
                     !.chip.env_control = r.env,
                     !.op = "update_level",
                     !.calls = CallsAfter(@),
                     !.ret = r.ret]
    /\ UNCHANGED <<haltVars, cpu, ulaVars, bus, probe>>

SoundInit ==
    /\ ay \in {[kind |-> "chip", part |-> part, chip |-> Ay3_8891xAudioDefault,
                regs |-> [r \in AyRegisters |-> 0], written |-> {},
                op |-> "default", shape |-> 0, calls |-> Untracked,
                ret |-> NoLevel] : part \in AyParts}
    /\ ula = UlaDefault
    /\ ctl = "idle"
    /\ vtsc = ula.tsc
    /\ call = NoCall
    /\ cpu = CpuReset(0)
    /\ hphase = "off"
    /\ halt_pc = 0
    /\ ula_tsc = VideoTs(0, 0)
    /\ tsc1 = VideoTs(0, 0)
    /\ cpu1 = CpuReset(0)
    /\ ff_branch = "none"
    /\ bus = BusIdle
    /\ probe = ProbeIdle

SoundNext ==
    \/ UpdateRegister
    \/ EnvUpdateLevel

SpecSound == SoundInit /\ [][SoundNext]_vars

\* the envelope shapes by their bits
ShapeBit(shape, mask) == BitAnd(shape, mask) # 0
\* the n-th value (n = 1, 2, ...) of the sequences of C16
DownOnce(n, then) == IF n <= 16 THEN 16 - n ELSE then
UpOnce(n, then) == IF n <= 16 THEN n - 1 ELSE then
DownRepeating(n) == 15 - ((n - 1) % 16)
UpRepeating(n) == (n - 1) % 16
DownUpRepeating(n) == IF ((n - 1) \div 16) % 2 = 0 THEN DownRepeating(n) ELSE UpRepeating(n)
UpDownRepeating(n) == IF ((n - 1) \div 16) % 2 = 0 THEN UpRepeating(n) ELSE DownRepeating(n)
EnvelopeSequence(shape, n) ==
    LET cont == ShapeBit(shape, ENV_SHAPE_CONT_MASK)
        attack == ShapeBit(shape, ENV_SHAPE_ATTACK_MASK)
        alt == ShapeBit(shape, ENV_SHAPE_ALT_MASK)
        hold == ShapeBit(shape, ENV_SHAPE_HOLD_MASK)
    IN  CASE ~cont /\ ~attack -> DownOnce(n, 0)
          [] ~cont /\ attack -> UpOnce(n, 0)
          [] cont /\ ~attack /\ ~alt /\ ~hold -> DownRepeating(n)
          [] cont /\ ~attack /\ ~alt /\ hold -> DownOnce(n, 0)
          [] cont /\ ~attack /\ alt /\ ~hold -> DownUpRepeating(n)
          [] cont /\ ~attack /\ alt /\ hold -> DownOnce(n, 15)
          [] cont /\ attack /\ ~alt /\ ~hold -> UpRepeating(n)
          [] cont /\ attack /\ ~alt /\ hold -> UpOnce(n, 15)
          [] cont /\ attack /\ alt /\ ~hold -> UpDownRepeating(n)
          [] cont /\ attack /\ alt /\ hold -> UpOnce(n, 0)

\* C16: after set_shape(s) with period 1 the n-th update_level call returns the
\* n-th value of the sequence of the shape: 15..0 or 0..15 once and then 0
\* (CONT clear; CONT|HOLD; CONT|ATTACK|ALT|HOLD), 15..0 or 0..15 repeating
\* (CONT; CONT|ATTACK), 15..0 then 0..15 repeating or the reverse (CONT|ALT;
\* CONT|ATTACK|ALT), 15..0 or 0..15 and then 15 (CONT|ALT|HOLD;
\* CONT|ATTACK|HOLD).
C16_EnvelopeSequences ==
    (ay.kind = "chip" /\ ay.op = "update_level" /\ ay.calls # Untracked) =>
        /\ ay.chip.env_control.period = 1
        /\ ay.ret = EnvelopeSequence(ay.shape, ay.calls)

\* CONT|ALT|HOLD has gone down 15..0 and holds 15 in its third round of 16
C16_Witness ==
    /\ ay.kind = "chip"
    /\ ay.op = "update_level"
    /\ ay.shape = 11
    /\ ay.calls = 40
    /\ ay.ret = 15
    /\ ay.chip.env_control.period = 1

\* the period the registers of a pair stand for, 0 replaced by 1
RegisterPeriod(coarse, fine) ==
    IF coarse * 256 + fine = 0 THEN 1 ELSE coarse * 256 + fine
\* the tone generator and the register pair of a part of the chip
ToneOf(part) == CASE part = "A" -> 1 [] part = "B" -> 2 [] part = "C" -> 3

\* C17: after writes to both a channel's tone-fine and tone-coarse registers the
\* tone period is (last coarse value & 0x0F) * 256 + last fine value, with 0
\* replaced by 1, whatever the order of the writes; the envelope period is
\* register 12 * 256 + register 11, with 0 replaced by 1.
C17_PeriodFromRegisters ==
    /\ (ay.kind = "chip" /\ ay.part \in {"A", "B", "C"}
            /\ ay.written = PartRegisters(ay.part)) =>
          LET n == ToneOf(ay.part)
          IN  ay.chip.tone_control[n].period =
                  RegisterPeriod(BitAnd(ay.regs[2 * n - 1], 15), ay.regs[2 * n - 2])
    /\ (ay.kind = "chip" /\ ay.part = "env" /\ {11, 12} \subseteq ay.written) =>
          ay.chip.env_control.period = RegisterPeriod(ay.regs[12], ay.regs[11])

----------------------------------------------------------------------------
(* Memory contention of the two video frames: chip/ula/video.rs and
   chip/ula128/video.rs *)

VideoFrames == {"48K", "128K"}

\* UlaVideoFrame / Ula128VidFrame: HTS_RANGE and VSL_COUNT
FrameHtsStart(frame) == IF frame = "128K" THEN -73 ELSE HTS_START
FrameHtsEnd(frame) == IF frame = "128K" THEN 155 ELSE HTS_END
FrameHtsRange(frame) == FrameHtsStart(frame) .. (FrameHtsEnd(frame) - 1)
FrameHtsCount(frame) == FrameHtsEnd(frame) - FrameHtsStart(frame)
FrameVslCount(frame) == IF frame = "128K" THEN 311 ELSE VSL_COUNT
FrameTstates(frame) == FrameVslCount(frame) * FrameHtsCount(frame)

\* Ula128VidFrame::contention
contention128_mut_phase(hc) ==
    IF hc >= -3 /\ hc < 123
    THEN LET ct == BitAnd(hc + 4, 7)
         IN  IF ct < 6 THEN hc + 6 - ct ELSE hc
    ELSE hc

contention128_mut_three_free_slots(hc) ==
    IF hc >= -3 /\ hc < 123
    THEN LET ct == BitAnd(hc + 3, 7)
         IN  IF ct < 5 THEN hc + 6 - ct ELSE hc
    ELSE hc

contention128(hc) ==
    IF hc >= -3 /\ hc < 123
    THEN LET ct == BitAnd(hc + 3, 7)
         IN  IF ct < 6 THEN hc + 6 - ct ELSE hc
    ELSE hc

\* VideoFrame::contention of a frame
frame_contention(frame, hc) ==
    IF frame = "128K" THEN contention128(hc) ELSE contention(hc)

\* VideoFrame::vts_to_tstates
frame_vts_to_tstates(frame, vts) == vts.vc * FrameHtsCount(frame) + vts.hc

\* VideoFrame::tstates_to_vts
tstates_to_vts(frame, ts) ==
    LET vc == ts \div FrameHtsCount(frame)
        hc == ts % FrameHtsCount(frame)
    IN  IF hc >= FrameHtsEnd(frame)
        THEN VideoTs(vc + 1, hc - FrameHtsCount(frame))
        ELSE VideoTs(vc, hc)

\* VideoFrame::normalize_vts
normalize_vts(frame, vts) == tstates_to_vts(frame, frame_vts_to_tstates(frame, vts))

\* VideoFrame::vts_add_ts
vts_add_ts(frame, vts, delta) ==
    tstates_to_vts(frame, frame_vts_to_tstates(frame, vts) + delta)

\* tests::test_contention: a memory access made `testing` T-states after
\* VideoTs(0, 0); the frame T-state it completes at
contended_access(frame, testing) ==
    LET vts == vts_add_ts(frame, VideoTs(0, 0), testing)
    IN  frame_vts_to_tstates(frame,
            normalize_vts(frame, VideoTs(vts.vc, frame_contention(frame, vts.hc))))

NoHc == -32768

\* contention applied to a horizontal T-state of the frame
Contention ==
    /\ probe.kind = "hc"
    /\ ~probe.done
    /\ probe' = [probe EXCEPT !.done = TRUE,
                              !.ret = frame_contention(probe.frame, probe.hc)]
    /\ UNCHANGED <<haltVars, cpu, ulaVars, bus, ay>>

\* a memory access at a T-state of the frame
ContendedAccess ==
    /\ probe.kind = "tstates"
    /\ ~probe.done
    /\ probe' = [probe EXCEPT
                    !.done = TRUE,
                    !.hc = tstates_to_vts(probe.frame, probe.tstates).hc,
                    !.ret = contended_access(probe.frame, probe.tstates)]
    /\ UNCHANGED <<haltVars, cpu, ulaVars, bus, ay>>

VideoInit ==
    /\ \E f \in VideoFrames :
          \/ \E hc \in FrameHtsRange(f) :
                probe = [kind |-> "hc", frame |-> f, hc |-> hc, tstates |-> 0,
                         done |-> FALSE, ret |-> NoHc]
          \/ \E ts \in 0 .. (FrameTstates(f) - 1) :
                probe = [kind |-> "tstates", frame |-> f, hc |-> NoHc, tstates |-> ts,
                         done |-> FALSE, ret |-> NoHc]
    /\ ula = UlaDefault
    /\ ctl = "idle"
    /\ vtsc = ula.tsc
    /\ call = NoCall
    /\ cpu = CpuReset(0)
    /\ hphase = "off"
    /\ halt_pc = 0
    /\ ula_tsc = VideoTs(0, 0)
    /\ tsc1 = VideoTs(0, 0)
    /\ cpu1 = CpuReset(0)
    /\ ff_branch = "none"
    /\ bus = BusIdle
    /\ ay = AyIdle

VideoNext ==
    \/ Contention
    \/ ContendedAccess

SpecVideo == VideoInit /\ [][VideoNext]_vars

\* the contention window and the phase of the 8-cycle pattern, as the claims
\* state them
InWindow(frame, hc) ==
    IF frame = "128K" THEN hc >= -3 /\ hc < 123 ELSE hc >= -1 /\ hc < 125
Phase(frame) == IF frame = "128K" THEN 3 ELSE 1

\* C18: outside the contention window of the frame (48K: hc < -1 or hc >= 125;
\* 128K: hc < -3 or hc >= 123) contention(hc) = hc for every hc of HTS_RANGE.
C18_NoDelayOutsideWindow ==
    (probe.kind = "hc" /\ probe.done /\ ~InWindow(probe.frame, probe.hc)) =>
        probe.ret = probe.hc

\* contention has been applied just past the 48K window
C18_Witness ==
    /\ probe.kind = "hc"
    /\ probe.done
    /\ probe.frame = "48K"
    /\ probe.hc = 127
    /\ probe.ret = 127

\* C19 as stated: inside the contention window the delay contention(hc) - hc
\* is one of 0..6 and (contention(hc) + phase) mod 8 = 6, with phase 1 for the
\* 48K frame and 3 for the 128K frame.
C19_AlwaysSlotSix ==
    (probe.kind = "hc" /\ probe.done /\ InWindow(probe.frame, probe.hc)) =>
        /\ probe.ret - probe.hc \in 0 .. 6
        /\ (probe.ret + Phase(probe.frame)) % 8 = 6

\* C19, amended: inside the contention window the delay contention(hc) - hc is
\* one of 0..6 and (contention(hc) + phase) mod 8 = 6, unless
\* (hc + phase) mod 8 = 7, where the access is not delayed; phase is 1 for the
\* 48K frame and 3 for the 128K frame.
C19_SlotSixOrSeven ==
    (probe.kind = "hc" /\ probe.done /\ InWindow(probe.frame, probe.hc)) =>
        /\ probe.ret - probe.hc \in 0 .. 6
        /\ IF (probe.hc + Phase(probe.frame)) % 8 = 7
           THEN probe.ret = probe.hc
           ELSE (probe.ret + Phase(probe.frame)) % 8 = 6

\* the 128K frame at hc = 4, the second free slot of the pattern: no delay
C19_Witness ==
    /\ probe.kind = "hc"
    /\ probe.done
    /\ probe.frame = "128K"
    /\ probe.hc = 4
    /\ InWindow(probe.frame, probe.hc)
    /\ (probe.hc + Phase(probe.frame)) % 8 = 7
    /\ probe.ret = 4

\* the first contended T-state of the frame in tests::test_contention, and the
\* free slots of the 8-cycle pattern
TableBase(frame) == IF frame = "128K" THEN 14361 ELSE 14335
FreeSlot(frame, hc) == (hc + Phase(frame)) % 8 \in {6, 7}

\* C20: for k in 0..15 an access at frame T-state base + 8k, ..., base + 8k + 5
\* completes at base + 8k + 6 and an access at base + 8k + 6 or base + 8k + 7
\* is not delayed, with base 14335 for the 48K and 14361 for the 128K frame;
\* inside the window contention(hc) is the smallest hc' >= hc that is in one of
\* the two free slots of the 8-cycle pattern.
C20_ContentionTable ==
    /\ (probe.kind = "tstates" /\ probe.done
            /\ probe.tstates \in TableBase(probe.frame) .. (TableBase(probe.frame) + 127)) =>
          LET base == TableBase(probe.frame)
              k == (probe.tstates - base) \div 8
              j == (probe.tstates - base) % 8
          IN  probe.ret = IF j <= 5 THEN base + 8 * k + 6 ELSE probe.tstates
    /\ (probe.kind = "hc" /\ probe.done /\ InWindow(probe.frame, probe.hc)) =>
          /\ probe.ret >= probe.hc
          /\ FreeSlot(probe.frame, probe.ret)
          /\ \A h \in probe.hc .. (probe.ret - 1) : ~FreeSlot(probe.frame, h)

\* the last row of the 128K table: 14361 + 8 * 15 + 5 completes one T-state
\* later
C20_Witness ==
    /\ probe.kind = "tstates"
    /\ probe.done
    /\ probe.frame = "128K"
    /\ probe.tstates = 14486
    /\ probe.ret = 14487

----------------------------------------------------------------------------
(* The border, EAR/MIC out and EAR in logs of the Ula across frames:        *)
(* chip/ula/video.rs, chip/ula/audio.rs                                     *)

MaxLogLen == 2      \* entries a log may hold before an operation appends
MaxLogFrames == 1   \* frames prepared per behaviour
MaxFeed == 2        \* deltas one feed_ear_in call is given at most

I16_MAX == 32767

\* Option<usize> of feed_ear_in's max_frames_threshold
NoneFrames == [some |-> FALSE]
SomeFrames(n) == [some |-> TRUE, val |-> n]

\* EarIn::set_ear_in with the new entry always timed from self.tsc
set_ear_in_mut_from_tsc(u, ear_in, delta_fts) ==
    LET n == Len(u.ear_in_changes)
        data == IF ear_in THEN 1 ELSE 0
    IN  IF delta_fts = 0
        THEN IF n > 0 THEN [u EXCEPT !.ear_in_changes[n].data = data]
             ELSE [u EXCEPT !.prev_earmic_data = data]
        ELSE [u EXCEPT !.ear_in_changes =
                  Append(@, [ts |-> vts_add_ts("48K", u.tsc, delta_fts), data |-> data])]

\* EarIn::set_ear_in
set_ear_in(u, ear_in, delta_fts) ==
    LET n == Len(u.ear_in_changes)
        data == IF ear_in THEN 1 ELSE 0
        vts == IF n > 0 THEN u.ear_in_changes[n].ts ELSE u.tsc
    IN  IF delta_fts = 0
        THEN IF n > 0 THEN [u EXCEPT !.ear_in_changes[n].data = data]
             ELSE [u EXCEPT !.prev_earmic_data = data]
        ELSE [u EXCEPT !.ear_in_changes =
                  Append(@, [ts |-> vts_add_ts("48K", vts, delta_fts), data |-> data])]

\* feed_ear_in: `max_vc` from max_frames_threshold
feed_max_vc(max_frames_threshold) ==
    IF max_frames_threshold.some
       /\ max_frames_threshold.val * VSL_COUNT + 1 <= I16_MAX
    THEN max_frames_threshold.val * VSL_COUNT + 1
    ELSE I16_MAX - VSL_COUNT - (I16_MAX % VSL_COUNT) + 1

RECURSIVE feed_loop(_, _, _, _, _)
\* feed_ear_in: `for dlt in fts_deltas { ... }`, returns the log
feed_loop(log, vts, ear_in, fts_deltas, max_vc) ==
    IF fts_deltas = <<>> THEN log
    ELSE LET vts1 == vts_add_ts("48K", vts, Head(fts_deltas))
             ear1 == 1 - ear_in
             log1 == Append(log, [ts |-> vts1, data |-> ear1])
         IN  IF vts1.vc >= max_vc THEN log1
             ELSE feed_loop(log1, vts1, ear1, Tail(fts_deltas), max_vc)

\* EarIn::feed_ear_in
feed_ear_in(u, fts_deltas, max_frames_threshold) ==
    LET n == Len(u.ear_in_changes)
        vts == IF n > 0 THEN u.ear_in_changes[n].ts ELSE u.tsc
        ear_in == IF n > 0 THEN u.ear_in_changes[n].data ELSE u.prev_ear_in
    IN  [u EXCEPT !.ear_in_changes =
            feed_loop(@, vts, ear_in, fts_deltas, feed_max_vc(max_frames_threshold))]

\* EarIn::purge_ear_in_changes: ear_in_last_index is left as it is
purge_ear_in_changes(u, ear_in) ==
    [u EXCEPT !.ear_in_changes = <<>>,
              !.prev_ear_in = IF ear_in THEN 1 ELSE 0]

\* a single step of an instruction that reads the ULA port: the Io callback
\* reads EAR in at the timestamp of the read
ula_step_port_read(u, k) ==
    LET e == Ev(ensure_next_frame_vtsc(u), "cpu.execute_next")
        vt == CpuAdvance(e.tsc, k)
    IN  set_video_ts(read_ear_in(e, vt).ula, vt)

\* one pass of ula_execute_next_frame_with_breaks with a Cpu that makes the
\* callbacks of o and stops with res
ula_execute_next_frame_with_breaks(u, c, res, o) ==
    LET e == frame_pass_begin(u)
        vt == CpuAdvance(e.tsc, o.k)
    IN  frame_pass_end(cpu_callbacks(e, o, vt), c, res, vt)

\* inputs
BorderColors == {2, 7}
\* half a frame, a frame and a half
EarDeltas == {0, 34944, 104832}
FeedDeltas == {34944, 104832}
FeedSeqs == UNION {[1 .. n -> FeedDeltas] : n \in 1 .. MaxFeed}
FeedThresholds == {NoneFrames, SomeFrames(0), SomeFrames(1)}
LogsOutcomes == {o \in CpuOutcomes : o.pc = 0 /\ o.r = 0 /\ o.addr = NoData}

LogsFrameRoom(u) == ~is_vts_eof(u.tsc) \/ u.frames[1] < MaxLogFrames

LogsRoom(u) ==
    /\ Len(u.border_out_changes) < MaxLogLen
    /\ Len(u.earmic_out_changes) < MaxLogLen

\* ghost: the operation began with a frame change
FrameChanged(u) == \E i \in 1 .. Len(u.trace) : u.trace[i] = "prepare_next_frame"

\* ghost: the operation panicked
Panicked(u) == \E i \in 1 .. Len(u.trace) : u.trace[i] = "panic"

\* an operation leaves the Ula u (ghost: of the trace only the frame change
\* is kept, the bus recorder starts empty)
LogsDone(u) ==
    /\ ula' = [u EXCEPT !.bus = UlaDefault.bus,
                        !.trace = IF Panicked(u) THEN <<"panic">>
                                  ELSE IF FrameChanged(u) THEN <<"prepare_next_frame">>
                                  ELSE <<>>]
    /\ vtsc' = u.tsc
    /\ UNCHANGED <<haltVars, cpu, ctl, call, bus, benchVars>>

LogsSingleStep ==
    /\ LogsFrameRoom(ula)
    /\ LogsRoom(ula)
    /\ \E o \in LogsOutcomes :
          LogsDone(ula_execute_single_step(Fresh(ula), cpu, "Ok", o).ula)

LogsPortRead ==
    /\ LogsFrameRoom(ula)
    /\ \E k \in 1 .. MaxSkip :
          LogsDone(ula_step_port_read(Fresh(ula), k))

LogsFramePass ==
    /\ LogsFrameRoom(ula)
    /\ LogsRoom(ula)
    /\ \E o \in LogsOutcomes, res \in {"Ok", "Break"} :
          LET e == ensure_next_frame_vtsc(Fresh(ula))
          IN  /\ res = "Ok" => is_vts_eof(CpuAdvance(e.tsc, o.k))
              /\ LogsDone(ula_execute_next_frame_with_breaks(Fresh(ula), cpu, res, o).ula)

LogsSetBorderColor ==
    /\ Len(ula.border_out_changes) < MaxLogLen
    /\ \E border \in BorderColors :
          LogsDone(set_border_color(Fresh(ula), border))

LogsSetEarIn ==
    /\ Len(ula.ear_in_changes) < MaxLogLen
    /\ \E ear_in \in BOOLEAN, delta_fts \in EarDeltas :
          LogsDone(set_ear_in(Fresh(ula), ear_in, delta_fts))

LogsFeedEarIn ==
    /\ Len(ula.ear_in_changes) < MaxLogLen
    /\ \E fts_deltas \in FeedSeqs, max_frames_threshold \in FeedThresholds :
          LogsDone(feed_ear_in(Fresh(ula), fts_deltas, max_frames_threshold))

LogsInit ==
    /\ ula = UlaDefault
    /\ ctl = "idle"
    /\ vtsc = ula.tsc
    /\ call = NoCall
    /\ cpu = CpuReset(0)
    /\ hphase = "off"
    /\ halt_pc = 0
    /\ ula_tsc = VideoTs(0, 0)
    /\ tsc1 = VideoTs(0, 0)
    /\ cpu1 = CpuReset(0)
    /\ ff_branch = "none"
    /\ bus = BusIdle
    /\ probe = ProbeIdle
    /\ ay = AyIdle

LogsNext ==
    \/ LogsSingleStep
    \/ LogsPortRead
    \/ LogsFramePass
    \/ LogsSetBorderColor
    \/ LogsSetEarIn
    \/ LogsFeedEarIn

SpecLogs == LogsInit /\ [][LogsNext]_vars

\* a log is non-decreasing in VTs
LogMonotone(log) ==
    \A i \in 1 .. (Len(log) - 1) : TsLeq(log[i].ts, log[i + 1].ts)

\* C21: in every reachable state, whatever the sequence of Cpu port writes,
\* set_border_color, set_ear_in and feed_ear_in calls, partial and finished
\* frame passes and frame changes, the border log, the EAR/MIC out log and the
\* EAR in log are each non-decreasing in VTs.
C21_LogsMonotone ==
    /\ LogMonotone(ula.border_out_changes)
    /\ LogMonotone(ula.earmic_out_changes)
    /\ LogMonotone(ula.ear_in_changes)

\* a frame change has kept two EAR in entries and the Cpu has then
\* written the port during the resumed pass
C21_Witness ==
    /\ FrameChanged(ula)
    /\ ula.frames[1] = 1
    /\ Len(ula.ear_in_changes) >= 2
    /\ Len(ula.border_out_changes) + Len(ula.earmic_out_changes) >= 1

\* the entries of a log later than ts, each moved one frame back
ShiftedAfter(log, ts) ==
    LET later == SelectSeq(log, LAMBDA e : TsLess(ts, e.ts))
    IN  [i \in 1 .. Len(later) |-> [later[i] EXCEPT !.ts.vc = @ - VSL_COUNT]]

\* C22 as stated: a frame change leaves in the EAR in log only entries with
\* vc in [0, VSL_COUNT), each an entry of the previous frame moved by
\* -VSL_COUNT in vc, also when changes were buffered more than a frame ahead.
C22_ShiftedIntoFrame ==
    [][FrameChanged(ula') =>
          /\ ula'.ear_in_changes = ShiftedAfter(ula.ear_in_changes, ula.tsc)
          /\ \A i \in 1 .. Len(ula'.ear_in_changes) :
                /\ ula'.ear_in_changes[i].ts.vc >= 0
                /\ ula'.ear_in_changes[i].ts.vc < VSL_COUNT]_vars

\* C22 (amended): a frame change leaves in the EAR in log exactly the entries
\* later than the end of the frame, in order, each moved by -VSL_COUNT in vc;
\* every vc is >= 0, and it is below VSL_COUNT unless the entry was buffered
\* more than one frame ahead (vc >= 2 * VSL_COUNT before the change).
C22_ShiftedByOneFrame ==
    [][FrameChanged(ula') =>
          /\ ula'.ear_in_changes = ShiftedAfter(ula.ear_in_changes, ula.tsc)
          /\ \A i \in 1 .. Len(ula'.ear_in_changes) :
                /\ ula'.ear_in_changes[i].ts.vc >= 0
                /\ \/ ula'.ear_in_changes[i].ts.vc < VSL_COUNT
                   \/ \E j \in 1 .. Len(ula.ear_in_changes) :
                         /\ ula.ear_in_changes[j].ts.vc >= 2 * VSL_COUNT
                         /\ ula'.ear_in_changes[i] =
                               [ula.ear_in_changes[j] EXCEPT !.ts.vc = @ - VSL_COUNT]]_vars

\* a frame change has dropped consumed entries and kept one entry inside the
\* new frame and one beyond it
C22_Witness ==
    /\ FrameChanged(ula)
    /\ \E i, j \in 1 .. Len(ula.ear_in_changes) :
          /\ ula.ear_in_changes[i].ts.vc < VSL_COUNT
          /\ ula.ear_in_changes[j].ts.vc >= VSL_COUNT
    /\ ula.prev_ear_in = 1

----------------------------------------------------------------------------
(* Ay3_8891xAudio::render_audio and the generators it advances:            *)
(* audio/ay.rs, bus/ay.rs                                                   *)

INTERNAL_CLOCK_DIVISOR == 16
HOST_CLOCK_RATIO == 2
TONE_GEN_MIN_THRESHOLD == 5
\* Ticker::CLOCK_INCREASE
CLOCK_INCREASE == HOST_CLOCK_RATIO * INTERNAL_CLOCK_DIVISOR

MaxChanges == 2   \* register changes recorded between two renderings
MaxRenders == 2   \* frames rendered per behaviour

\* AmpLevel::is_env_control, AmpLevel::level
is_env_control(level) == BitAnd(level, 16) # 0
amp_level(level) == BitAnd(level, 15)

\* Mixer::has_tone, Mixer::has_noise, Mixer::next_chan
has_tone(mixer) == BitAnd(mixer, 1) = 0
has_noise_mut_bit_four(mixer) == BitAnd(mixer, 16) = 0
has_noise(mixer) == BitAnd(mixer, 8) = 0
next_chan(mixer) == mixer \div 2

\* NoiseControl::update_is_low toggling on bit 1 of rng alone
noise_update_is_low_mut_bit_one(noise) ==
    IF noise.tick >= noise.period
    THEN LET low == IF BitAnd(noise.rng, 2) # 0 THEN ~noise.low ELSE noise.low
             rng == BitXor(IF noise.rng % 2 = 1 THEN 73728 ELSE 0, noise.rng \div 2)
         IN  [noise |-> [noise EXCEPT !.low = low, !.rng = rng,
                                      !.tick = (noise.tick - noise.period + 1) % 256],
              ret |-> low]
    ELSE [noise |-> [noise EXCEPT !.tick = (noise.tick + 1) % 256],
          ret |-> noise.low]

\* NoiseControl::update_is_low: returns [noise, ret]; rng stays in 0 .. 2^17 - 1,
\* so -(rng & 1) & 0x12000 is 0x12000 for an odd rng and 0 for an even one
noise_update_is_low(noise) ==
    IF noise.tick >= noise.period
    THEN LET low == IF BitAnd(noise.rng + 1, 2) # 0 THEN ~noise.low ELSE noise.low
             rng == BitXor(IF noise.rng % 2 = 1 THEN 73728 ELSE 0, noise.rng \div 2)
         IN  [noise |-> [noise EXCEPT !.low = low, !.rng = rng,
                                      !.tick = (noise.tick - noise.period + 1) % 256],
              ret |-> low]
    ELSE [noise |-> [noise EXCEPT !.tick = (noise.tick + 1) % 256],
          ret |-> noise.low]

\* ToneControl::update_is_low toggling only when the tick is above the period
tone_update_is_low_mut_above(tone) ==
    IF tone.period < TONE_GEN_MIN_THRESHOLD
    THEN [tone |-> [tone EXCEPT !.tick = (tone.tick + 2) % 65536], ret |-> FALSE]
    ELSE IF tone.tick > tone.period
    THEN [tone |-> [tone EXCEPT !.low = ~tone.low,
                                !.tick = (tone.tick - tone.period + 2) % 65536],
          ret |-> ~tone.low]
    ELSE [tone |-> [tone EXCEPT !.tick = (tone.tick + 2) % 65536], ret |-> tone.low]

\* ToneControl::update_is_low: returns [tone, ret]
tone_update_is_low(tone) ==
    IF tone.period < TONE_GEN_MIN_THRESHOLD
    THEN [tone |-> [tone EXCEPT !.tick = (tone.tick + 2) % 65536], ret |-> FALSE]
    ELSE IF tone.tick >= tone.period
    THEN [tone |-> [tone EXCEPT !.low = ~tone.low,
                                !.tick = (tone.tick - tone.period + 2) % 65536],
          ret |-> ~tone.low]
    ELSE [tone |-> [tone EXCEPT !.tick = (tone.tick + 2) % 65536], ret |-> tone.low]

\* render_audio, one channel of the loop over the channels at mixer position
\* `mixer`: the tone generator is consulted only when the mixer has the tone
\* (`mixer.has_tone() && tone_control.update_is_low()`); returns the tone
\* generator, the target level and (ghost) what the tone answered
render_channel(tone, level, mixer, env_level, noise_low) ==
    LET upd == tone_update_is_low(tone)
        called == has_tone(mixer)
        muted == (called /\ upd.ret) \/ (has_noise(mixer) /\ noise_low)
    IN  [tone |-> IF called THEN upd.tone ELSE tone,
         tgt_lvl |-> IF muted THEN 0
                     ELSE IF is_env_control(level) THEN env_level ELSE level,
         tone_low |-> IF called THEN upd.ret ELSE tone.low]

\* the peek loop taking only the changes timed strictly before the tick
RECURSIVE render_consume_mut_strict(_, _, _, _)
render_consume_mut_strict(chip, changes, tick, applied) ==
    IF changes # <<>> /\ Head(changes).time < tick
    THEN render_consume_mut_strict(
             update_register(chip, Head(changes).reg, Head(changes).val),
             Tail(changes), tick,
             Append(applied, [change |-> Head(changes), at |-> tick,
                              in_loop |-> TRUE]))
    ELSE [chip |-> chip, changes |-> changes, applied |-> applied]

\* render_audio: `while let Some(change) = change_iter.peek()` at `tick`;
\* returns the chip, the changes left and (ghost) the changes applied
RECURSIVE render_consume(_, _, _, _)
render_consume(chip, changes, tick, applied) ==
    IF changes # <<>> /\ Head(changes).time <= tick
    THEN render_consume(update_register(chip, Head(changes).reg, Head(changes).val),
                        Tail(changes), tick,
                        Append(applied, [change |-> Head(changes), at |-> tick,
                                         in_loop |-> TRUE]))
    ELSE [chip |-> chip, changes |-> changes, applied |-> applied]

\* render_audio: the body of `for tick in &mut ticker` after the changes were
\* consumed; returns the chip, the target levels and (ghost) the tones' answers
render_tick(chip) ==
    LET env == update_level(chip.env_control)
        noise == noise_update_is_low(chip.noise_control)
        a == render_channel(chip.tone_control[1], chip.amp_levels[1],
                            chip.mixer, env.ret, noise.ret)
        b == render_channel(chip.tone_control[2], chip.amp_levels[2],
                            next_chan(chip.mixer), env.ret, noise.ret)
        c == render_channel(chip.tone_control[3], chip.amp_levels[3],
                            next_chan(next_chan(chip.mixer)), env.ret, noise.ret)
    IN  [chip |-> [chip EXCEPT !.env_control = env.env,
                               !.noise_control = noise.noise,
                               !.tone_control = <<a.tone, b.tone, c.tone>>],
         tone_levels |-> <<a.tgt_lvl, b.tgt_lvl, c.tgt_lvl>>,
         env_level |-> env.ret,
         noise_low |-> noise.ret,
         tone_low |-> <<a.tone_low, b.tone_low, c.tone_low>>]

\* AMPS_I16: the amplitudes of the 16 levels as i16 samples
AMPS_I16 ==
    <<0, 256, 362, 511, 724, 1023, 1448, 2047,
      2896, 4095, 5792, 8191, 11584, 16383, 23169, 32767>>

\* AyAmpLevels<i16>::amp_level
ay_amp_level(level) == AMPS_I16[BitAnd(level, 15) + 1]

\* SampleDelta::sample_delta: the step from last_vol to vol, if there is one
sample_delta(last_vol, vol) == [some |-> vol # last_vol, delta |-> vol - last_vol]

\* SampleTime::at_timestamp: the time of a T-state counter at the rate given
at_timestamp(time_rate, ts) == time_rate * ts

\* render_audio, one channel of the loop over chans, never storing the
\* amplitude it has emitted
add_step_chan_mut_keep_vol(sink, i, chans, tone_levels, time_rate, tick) ==
    IF sample_delta(sink.vol_levels[i], ay_amp_level(tone_levels[i])).some
    THEN [sink EXCEPT
             !.blep = Append(@, [chan |-> chans[i],
                                 time |-> at_timestamp(time_rate, tick),
                                 delta |-> sample_delta(sink.vol_levels[i],
                                               ay_amp_level(tone_levels[i])).delta,
                                 ay_chan |-> i, tick |-> tick])]
    ELSE sink

\* render_audio, one channel of the loop over chans: sink is [vol_levels, blep],
\* a step of blep is (chan, time, delta) and (ghost) the AY channel and the tick
add_step_chan(sink, i, chans, tone_levels, time_rate, tick) ==
    IF sample_delta(sink.vol_levels[i], ay_amp_level(tone_levels[i])).some
    THEN [vol_levels |-> [sink.vol_levels EXCEPT ![i] = ay_amp_level(tone_levels[i])],
          blep |-> Append(sink.blep,
                          [chan |-> chans[i],
                           time |-> at_timestamp(time_rate, tick),
                           delta |-> sample_delta(sink.vol_levels[i],
                                         ay_amp_level(tone_levels[i])).delta,
                           ay_chan |-> i, tick |-> tick])]
    ELSE sink

\* render_audio: `for (chan, (level, last_vol)) in chans.iter()...` at a tick
add_steps(sink, chans, tone_levels, time_rate, tick) ==
    add_step_chan(
        add_step_chan(
            add_step_chan(sink, 1, chans, tone_levels, time_rate, tick),
            2, chans, tone_levels, time_rate, tick),
        3, chans, tone_levels, time_rate, tick)

\* render_audio: vol_levels as set from last_levels before the loop
init_vol_levels(last_levels) ==
    [vol_levels |-> <<ay_amp_level(last_levels[1]), ay_amp_level(last_levels[2]),
                      ay_amp_level(last_levels[3])>>,
     blep |-> <<>>]

\* render_audio: `for tick in &mut ticker { ... }` from Ticker.current
RECURSIVE render_ticks(_, _, _, _, _, _, _, _, _, _)
render_ticks(chip, changes, current, end_ts, tone_levels, ticks, applied, time_rate, chans, sink) ==
    IF current < end_ts
    THEN LET c == render_consume(chip, changes, current, applied)
             t == render_tick(c.chip)
         IN  render_ticks(t.chip, c.changes, current + CLOCK_INCREASE, end_ts,
                          t.tone_levels,
                          Append(ticks, [tick |-> current, at |-> c.chip, to |-> t.chip,
                                         tone_levels |-> t.tone_levels,
                                         env_level |-> t.env_level,
                                         noise_low |-> t.noise_low,
                                         tone_low |-> t.tone_low]),
                          c.applied, time_rate, chans,
                          add_steps(sink, chans, t.tone_levels, time_rate, current))
    ELSE [chip |-> chip, changes |-> changes, current |-> current,
          tone_levels |-> tone_levels, ticks |-> ticks, applied |-> applied,
          blep |-> sink.blep]

\* render_audio: `while let Some(..) = change_iter.next()` after the loop
RECURSIVE render_rest(_, _, _, _)
render_rest(chip, changes, current, applied) ==
    IF changes = <<>> THEN [chip |-> chip, applied |-> applied]
    ELSE render_rest(update_register(chip, Head(changes).reg, Head(changes).val),
                     Tail(changes), current,
                     Append(applied, [change |-> Head(changes), at |-> current,
                                      in_loop |-> FALSE]))

\* render_audio saving no leftover: the next frame's ticker starts at 0
render_audio_end_mut_restart(r, rest, end_ts) ==
    [chip |-> [rest.chip EXCEPT !.current_ts = 0,
                                !.last_levels = r.tone_levels],
     ticks |-> r.ticks,
     applied |-> rest.applied,
     blep |-> r.blep]

\* render_audio, after the loops: r is what the loop over the ticks left and
\* rest what applying the remaining changes made of it
render_audio_end(r, rest, end_ts) ==
    [chip |-> [rest.chip EXCEPT !.current_ts = r.current - end_ts,
                                !.last_levels = r.tone_levels],
     ticks |-> r.ticks,
     applied |-> rest.applied,
     blep |-> r.blep]

\* render_audio, after the loop over the ticks
render_audio_rest(r, end_ts) ==
    render_audio_end(r, render_rest(r.chip, r.changes, r.current, r.applied), end_ts)

\* Ay3_8891xAudio::render_audio; returns the chip, the steps added to blep and
\* (ghost) what each tick did and when each change was applied
render_audio(chip, changes, time_rate, end_ts, chans) ==
    render_audio_rest(render_ticks(chip, changes, chip.current_ts, end_ts,
                                   chip.last_levels, <<>>, <<>>,
                                   time_rate, chans,
                                   init_vol_levels(chip.last_levels)),
                      end_ts)

\* the device after the rendering r: the recorder was drained
render_ay_audio_end(r) ==
    [dev |-> [ay_sound |-> r.chip, recorder |-> <<>>],
     ticks |-> r.ticks, applied |-> r.applied, blep |-> r.blep]

\* Ay3_891xBusDevice<FTs, ..>::render_ay_audio: the recorder is drained and its
\* changes rendered; the arguments go to render_audio one place on: `end_ts`
\* is what render_audio gets as its time_rate and `frame_tstates` as its end_ts
render_ay_audio(dev, end_ts, frame_tstates, chans) ==
    render_ay_audio_end(render_audio(dev.ay_sound, dev.recorder, end_ts,
                                     frame_tstates, chans))

\* inputs: the register writes the Cpu makes, their frame T-states, the ends
RenderWrites == {<<0, 0>>, <<1, 1>>, <<7, 1>>, <<8, 31>>}
ChangeTimes == {0, 33, 200}
RenderEnds == {0, 10, 40, 96}

\* AyRegRecorder: a register write at `time` is logged (times ascend)
RenderRecord ==
    /\ ay.kind = "device"
    /\ ay.renders < MaxRenders
    /\ Len(ay.dev.recorder) < MaxChanges
    /\ \E w \in RenderWrites, time \in ChangeTimes :
          /\ ay.dev.recorder # <<>> =>
                ay.dev.recorder[Len(ay.dev.recorder)].time <= time
          /\ ay' = [ay EXCEPT
                       !.dev.recorder = Append(@, [reg |-> w[1], val |-> w[2],
                                                   time |-> time]),
                       !.op = "record"]
    /\ UNCHANGED <<haltVars, cpu, ulaVars, bus, probe>>

\* (ghost) the deltas of the steps of an AY channel added up
RECURSIVE SumDeltas(_, _)
SumDeltas(blep, i) ==
    IF blep = <<>> THEN 0
    ELSE (IF Head(blep).ay_chan = i THEN Head(blep).delta ELSE 0)
            + SumDeltas(Tail(blep), i)

\* what the caller passes as end_ts, and the Blep channels of A, B and C
RenderEndArgs == {1, 3}
RenderChans == <<2, 0, 1>>

RenderAyAudio ==
    /\ ay.kind = "device"
    /\ ay.renders < MaxRenders
    /\ \E end_ts \in RenderEndArgs, frame_tstates \in RenderEnds :
          \E r \in {render_ay_audio(ay.dev, end_ts, frame_tstates, RenderChans)} :
              ay' = [kind |-> "device", dev |-> r.dev, renders |-> ay.renders + 1,
                     op |-> "render_ay_audio", before |-> ay.dev,
                     end_ts |-> frame_tstates, ticks |-> r.ticks,
                     applied |-> r.applied, time_rate |-> end_ts,
                     blep |-> r.blep,
                     emitted |-> <<ay.emitted[1] + SumDeltas(r.blep, 1),
                                   ay.emitted[2] + SumDeltas(r.blep, 2),
                                   ay.emitted[3] + SumDeltas(r.blep, 3)>>,
                     first |-> ay.first]
    /\ UNCHANGED <<haltVars, cpu, ulaVars, bus, probe>>

RenderInit ==
    /\ ay = [kind |-> "device",
             dev |-> [ay_sound |-> Ay3_8891xAudioDefault, recorder |-> <<>>],
             renders |-> 0, op |-> "default",
             before |-> [ay_sound |-> Ay3_8891xAudioDefault, recorder |-> <<>>],
             end_ts |-> 0, ticks |-> <<>>, applied |-> <<>>,
             time_rate |-> 0, blep |-> <<>>, emitted |-> <<0, 0, 0>>,
             first |-> Ay3_8891xAudioDefault.last_levels]
    /\ ula = UlaDefault
    /\ ctl = "idle"
    /\ vtsc = ula.tsc
    /\ call = NoCall
    /\ cpu = CpuReset(0)
    /\ hphase = "off"
    /\ halt_pc = 0
    /\ ula_tsc = VideoTs(0, 0)
    /\ tsc1 = VideoTs(0, 0)
    /\ cpu1 = CpuReset(0)
    /\ ff_branch = "none"
    /\ bus = BusIdle
    /\ probe = ProbeIdle

RenderNext ==
    \/ RenderRecord
    \/ RenderAyAudio

SpecRender == RenderInit /\ [][RenderNext]_vars

\* what the registers hold: the periods, the mixer and the amplitudes
RegisterState(chip) ==
    [tone |-> [i \in 1 .. 3 |-> chip.tone_control[i].period],
     noise |-> chip.noise_control.period,
     env |-> chip.env_control.period,
     mixer |-> chip.mixer,
     amp_levels |-> chip.amp_levels]

\* all the changes applied in their order
RECURSIVE ApplyAll(_, _)
ApplyAll(chip, changes) ==
    IF changes = <<>> THEN chip
    ELSE ApplyAll(update_register(chip, Head(changes).reg, Head(changes).val),
                  Tail(changes))

\* the changes timed not later than t
DueBy(changes, t) == SelectSeq(changes, LAMBDA c : c.time <= t)

\* C23: a rendering applies every logged change once and in log order; a
\* change timed <= t is applied before the generators advance at tick t (at
\* the first tick not earlier than its time); a change later than the last
\* tick is applied after the loop and leaves this frame's ticks as they would
\* be without it; the device's log is empty afterwards; and the registers end
\* as if all changes were applied in order, whatever end_ts is.
C23_ChangesAppliedInOrder ==
    (ay.kind = "device" /\ ay.op = "render_ay_audio") =>
        /\ [i \in 1 .. Len(ay.applied) |-> ay.applied[i].change] = ay.before.recorder
        /\ \A i \in 1 .. Len(ay.applied) :
              /\ ay.applied[i].in_loop <=>
                    \E k \in 1 .. Len(ay.ticks) :
                       ay.applied[i].change.time <= ay.ticks[k].tick
              /\ ay.applied[i].in_loop =>
                    /\ ay.applied[i].change.time <= ay.applied[i].at
                    /\ \A k \in 1 .. Len(ay.ticks) :
                          ay.ticks[k].tick < ay.applied[i].at
                             => ay.ticks[k].tick < ay.applied[i].change.time
        /\ \A k \in 1 .. Len(ay.ticks) :
              RegisterState(ay.ticks[k].at)
                 = RegisterState(ApplyAll(ay.before.ay_sound,
                                          DueBy(ay.before.recorder, ay.ticks[k].tick)))
        /\ ay.ticks # <<>> =>
              ay.ticks = render_audio(ay.before.ay_sound,
                                      DueBy(ay.before.recorder,
                                            ay.ticks[Len(ay.ticks)].tick),
                                      ay.time_rate, ay.end_ts, RenderChans).ticks
        /\ ay.dev.recorder = <<>>
        /\ RegisterState(ay.dev.ay_sound)
              = RegisterState(ApplyAll(ay.before.ay_sound, ay.before.recorder))

\* a rendering of three ticks has applied one change at its second tick and
\* another one after the loop
C23_Witness ==
    /\ ay.kind = "device"
    /\ ay.op = "render_ay_audio"
    /\ Len(ay.ticks) = 3
    /\ Len(ay.applied) = 2
    /\ ay.applied[1].in_loop
    /\ ay.applied[1].at = CLOCK_INCREASE + ay.before.ay_sound.current_ts
    /\ ~ay.applied[2].in_loop

----------------------------------------------------------------------------
(* One internal tick of render_audio on the states a chip may be in        *)

MaxTicks == 2   \* ticks made per behaviour

\* tone generators: never written; period 5 about to toggle; period 5 and low;
\* too fast a period (below TONE_GEN_MIN_THRESHOLD) left low by a period change
ToneStates ==
    {ToneControlDefault,
     [period |-> 5, tick |-> 6, low |-> FALSE],
     [period |-> 5, tick |-> 3, low |-> TRUE],
     [period |-> 1, tick |-> 0, low |-> TRUE]}
\* the noise generator as created, after its first step, and with period 2
NoiseStates ==
    {NoiseControlDefault, noise_update_is_low(NoiseControlDefault).noise,
     noise_set_period(NoiseControlDefault, 2)}
\* the envelope as created and two steps after set_shape(13)
EnvStates ==
    {EnvelopeControlDefault,
     update_level(update_level(set_shape(EnvelopeControlDefault, 13)).env).env}
AmpStates == {<<0, 15, 31>>, <<16, 31, 9>>, <<9, 0, 16>>, <<31, 16, 15>>}
MixerStates == 0 .. 63

TickChips ==
    {[Ay3_8891xAudioDefault EXCEPT !.mixer = m, !.amp_levels = amp,
                                   !.env_control = e, !.noise_control = n,
                                   !.tone_control = <<a, b, c>>] :
        m \in MixerStates, amp \in AmpStates, e \in EnvStates, n \in NoiseStates,
        a \in ToneStates, b \in ToneStates, c \in ToneStates}

\* one pass of the body of render_audio's tick loop
RenderTick ==
    /\ ay.kind = "tick"
    /\ ay.n < MaxTicks
    /\ LET t == render_tick(ay.chip)
       IN  ay' = [kind |-> "tick", chip |-> t.chip, before |-> ay.chip,
                  n |-> ay.n + 1, tone_levels |-> t.tone_levels,
                  env_level |-> t.env_level, noise_low |-> t.noise_low,
                  tone_low |-> t.tone_low]
    /\ UNCHANGED <<haltVars, cpu, ulaVars, bus, probe>>

TickInit ==
    /\ \E chip \in TickChips :
          ay = [kind |-> "tick", chip |-> chip, before |-> chip, n |-> 0,
                tone_levels |-> chip.last_levels, env_level |-> 0,
                noise_low |-> FALSE, tone_low |-> <<FALSE, FALSE, FALSE>>]
    /\ ula = UlaDefault
    /\ ctl = "idle"
    /\ vtsc = ula.tsc
    /\ call = NoCall
    /\ cpu = CpuReset(0)
    /\ hphase = "off"
    /\ halt_pc = 0
    /\ ula_tsc = VideoTs(0, 0)
    /\ tsc1 = VideoTs(0, 0)
    /\ cpu1 = CpuReset(0)
    /\ ff_branch = "none"
    /\ bus = BusIdle
    /\ probe = ProbeIdle

TickNext == RenderTick

SpecTick == TickInit /\ [][TickNext]_vars

\* C24: at every tick the envelope, the noise and each of the three tone
\* generators make exactly one step, whatever the mixer's enable bits are.
C24_AllGeneratorsStep ==
    (ay.kind = "tick" /\ ay.n > 0) =>
        /\ ay.chip.env_control = update_level(ay.before.env_control).env
        /\ ay.chip.noise_control = noise_update_is_low(ay.before.noise_control).noise
        /\ \A i \in 1 .. 3 :
              ay.chip.tone_control[i] = tone_update_is_low(ay.before.tone_control[i]).tone

\* bit `bit` of the mixer register
MixerBit(mixer, bit) == (mixer \div (2 ^ bit)) % 2

\* C25: at each tick channel i (A = 0, B = 1, C = 2) outputs 0 when (mixer
\* bit i is 0 and tone i is low) or (mixer bit 3 + i is 0 and the noise is
\* low); otherwise the envelope level when bit 4 of its amplitude register is
\* set, else the register's low 4 bits; the output is always in 0 .. 15.
C25_ChannelLevel ==
    (ay.kind = "tick" /\ ay.n > 0) =>
        \A i \in 0 .. 2 :
           /\ ay.tone_levels[i + 1] \in 0 .. 15
           /\ ay.tone_levels[i + 1] =
                 IF \/ MixerBit(ay.before.mixer, i) = 0 /\ ay.tone_low[i + 1]
                    \/ MixerBit(ay.before.mixer, 3 + i) = 0 /\ ay.noise_low
                 THEN 0
                 ELSE IF (ay.before.amp_levels[i + 1] \div 16) % 2 = 1
                 THEN ay.env_level
                 ELSE ay.before.amp_levels[i + 1] % 16

\* channel B is silenced by its low tone alone, channel A follows the
\* envelope and channel C its amplitude register
C25_Witness ==
    /\ ay.kind = "tick"
    /\ ay.n > 0
    /\ ~ay.noise_low
    /\ MixerBit(ay.before.mixer, 1) = 0
    /\ ay.tone_low[2]
    /\ ay.tone_levels[2] = 0
    /\ ay.before.amp_levels = <<16, 31, 9>>
    /\ ay.tone_levels[1] = ay.env_level
    /\ ay.env_level > 0
    /\ ay.tone_levels[3] = 9

----------------------------------------------------------------------------
(* DynamicBusDevice as a container: len, append_device, remove_device,     *)
(* clear, is_device: bus/dynbus.rs                                          *)

MaxChain == 3     \* devices in the chain before append_device is called
MaxAppends == 5   \* append_device calls per behaviour

\* Option<BoxLinkedDynDevice<D>>
NoneDev == [some |-> FALSE]
SomeDev(d) == [some |-> TRUE, dev |-> d]

\* DynamicBusDevice::len
len(devices) == Len(devices)

\* DynamicBusDevice::append_device: returns [devices, ret]
append_device(devices, device) ==
    [devices |-> Append(devices, device), ret |-> Len(Append(devices, device)) - 1]

\* remove_device taking the device from the front of the chain
remove_device_mut_first(devices) ==
    IF devices = <<>> THEN [devices |-> devices, ret |-> NoneDev]
    ELSE [devices |-> Tail(devices), ret |-> SomeDev(Head(devices))]

\* DynamicBusDevice::remove_device (Vec::pop): returns [devices, ret]
remove_device(devices) ==
    IF devices = <<>> THEN [devices |-> devices, ret |-> NoneDev]
    ELSE [devices |-> SubSeq(devices, 1, Len(devices) - 1),
          ret |-> SomeDev(devices[Len(devices)])]

\* DynamicBusDevice::clear
clear(devices) == <<>>

\* DynamicBusDevice::is_device::<B>(index), index counted from 0
is_device(devices, B, index) ==
    IF index < Len(devices) THEN devices[index + 1].kind = B ELSE FALSE

DeviceKinds == {"TestDevice", "NullDevice"}

\* ghost: what the last call was given and what it answered; `appended` counts
\* the append_device calls, each appended device carrying its number as data
ChainCall(op, devices, appended, index, kind, ret_index, ret_dev, ret_bool) ==
    bus' = [chain |-> "container", devices |-> devices, appended |-> appended,
            last |-> [op |-> op, before |-> bus.devices, index |-> index,
                      kind |-> kind, ret_index |-> ret_index, ret_dev |-> ret_dev,
                      ret_bool |-> ret_bool]]

ChainAppend ==
    /\ bus.chain = "container"
    /\ Len(bus.devices) < MaxChain
    /\ bus.appended < MaxAppends
    /\ \E kind \in DeviceKinds :
          LET device == [kind |-> kind, foo |-> 0, data |-> bus.appended + 1]
              r == append_device(bus.devices, device)
          IN  ChainCall("append_device", r.devices, bus.appended + 1, 0, kind,
                        r.ret, SomeDev(device), FALSE)
    /\ UNCHANGED <<haltVars, cpu, ulaVars, benchVars>>

ChainRemove ==
    /\ bus.chain = "container"
    /\ LET r == remove_device(bus.devices)
       IN  ChainCall("remove_device", r.devices, bus.appended, 0, "none", 0,
                     r.ret, FALSE)
    /\ UNCHANGED <<haltVars, cpu, ulaVars, benchVars>>

ChainClear ==
    /\ bus.chain = "container"
    /\ ChainCall("clear", clear(bus.devices), bus.appended, 0, "none", 0,
                 NoneDev, FALSE)
    /\ UNCHANGED <<haltVars, cpu, ulaVars, benchVars>>

ChainIsDevice ==
    /\ bus.chain = "container"
    /\ \E kind \in DeviceKinds, index \in 0 .. (MaxChain + 1) :
          ChainCall("is_device", bus.devices, bus.appended, index, kind, 0,
                    NoneDev, is_device(bus.devices, kind, index))
    /\ UNCHANGED <<haltVars, cpu, ulaVars, benchVars>>

ChainInit ==
    /\ bus = [chain |-> "container", devices |-> <<>>, appended |-> 0,
              last |-> [op |-> "default", before |-> <<>>, index |-> 0,
                        kind |-> "none", ret_index |-> 0, ret_dev |-> NoneDev,
                        ret_bool |-> FALSE]]
    /\ probe = ProbeIdle
    /\ ay = AyIdle
    /\ ula = UlaDefault
    /\ ctl = "idle"
    /\ vtsc = VideoTs(0, 0)
    /\ call = NoCall
    /\ cpu = CpuReset(0)
    /\ hphase = "off"
    /\ halt_pc = 0
    /\ ula_tsc = VideoTs(0, 0)
    /\ tsc1 = VideoTs(0, 0)
    /\ cpu1 = CpuReset(0)
    /\ ff_branch = "none"

ChainNext ==
    \/ ChainAppend
    \/ ChainRemove
    \/ ChainClear
    \/ ChainIsDevice

SpecChain == ChainInit /\ [][ChainNext]_vars

\* the devices of `before` are still at their indices in `after`
SameIndices(before, after) ==
    \A i \in 1 .. Len(after) : i <= Len(before) => after[i] = before[i]

\* C26: append_device returns the index of the appended device, which is
\* len() before the call, and len() grows by 1; remove_device removes and
\* returns the most recently appended of the remaining devices, or None when
\* there is none; is_device(index) is false for index >= len(); the devices
\* that remain keep their indices.
C26_ContainerContract ==
    bus.chain = "container" =>
        /\ bus.last.op = "append_device" =>
              /\ bus.last.ret_index = len(bus.last.before)
              /\ len(bus.devices) = len(bus.last.before) + 1
              /\ SomeDev(bus.devices[bus.last.ret_index + 1]) = bus.last.ret_dev
              /\ SameIndices(bus.last.before, SubSeq(bus.devices, 1, Len(bus.devices) - 1))
        /\ bus.last.op = "remove_device" =>
              /\ bus.last.before = <<>> =>
                    bus.last.ret_dev = NoneDev /\ bus.devices = <<>>
              /\ bus.last.before # <<>> =>
                    /\ bus.last.ret_dev.some
                    /\ \A i \in 1 .. Len(bus.last.before) :
                          bus.last.before[i].data <= bus.last.ret_dev.dev.data
                    /\ \E i \in 1 .. Len(bus.last.before) :
                          bus.last.before[i] = bus.last.ret_dev.dev
                    /\ len(bus.devices) = len(bus.last.before) - 1
                    /\ \A i \in 1 .. Len(bus.devices) :
                          bus.devices[i] # bus.last.ret_dev.dev
                    /\ SameIndices(bus.last.before, bus.devices)
        /\ bus.last.op = "clear" => len(bus.devices) = 0
        /\ bus.last.op = "is_device" =>
              /\ bus.last.index >= len(bus.devices) => ~bus.last.ret_bool
              /\ bus.devices = bus.last.before

\* the fifth device appended has just been removed from a chain that held
\* the first device and two later ones
C26_Witness ==
    /\ bus.chain = "container"
    /\ bus.last.op = "remove_device"
    /\ Len(bus.last.before) = 3
    /\ bus.last.before[1].data = 1
    /\ bus.last.ret_dev = SomeDev(bus.last.before[3])
    /\ bus.last.ret_dev.dev.data = 5

----------------------------------------------------------------------------
(* execute_halted_state_until_eof on every timestamp it may be given       *)

\* one call of execute_halted_state_until_eof on the drawn timestamp and Cpu
EofFastForward ==
    /\ probe.kind = "halted"
    /\ ~probe.done
    /\ LET res == halted_until_eof(probe.tsc, probe.cpu.pc)
           ff == execute_halted_state_until_eof(probe.tsc, probe.cpu)
       IN  probe' = [probe EXCEPT !.done = TRUE, !.ret = ff.tsc,
                                  !.cpu_after = ff.cpu, !.r_incr = res.r_incr]
    /\ UNCHANGED <<haltVars, cpu, ulaVars, bus, ay>>

\* every normalized timestamp inside the frame, and those of a HALT whose M1
\* cycle crossed the end of the frame (vc = VSL_COUNT, hc < 0); PC in
\* uncontended and in contended memory
EofInit ==
    /\ \E pc \in CpuPcs :
          \/ \E vc \in 0 .. (VSL_COUNT - 1), hc \in HTS_RANGE :
                probe = [kind |-> "halted", tsc |-> VideoTs(vc, hc),
                         cpu |-> CpuExecHalt(CpuReset(pc)), done |-> FALSE,
                         ret |-> VideoTs(vc, hc), cpu_after |-> CpuReset(pc),
                         r_incr |-> 0]
          \/ \E hc \in HTS_START .. -1 :
                probe = [kind |-> "halted", tsc |-> VideoTs(VSL_COUNT, hc),
                         cpu |-> CpuExecHalt(CpuReset(pc)), done |-> FALSE,
                         ret |-> VideoTs(VSL_COUNT, hc), cpu_after |-> CpuReset(pc),
                         r_incr |-> 0]
    /\ ula = UlaDefault
    /\ ctl = "idle"
    /\ vtsc = ula.tsc
    /\ call = NoCall
    /\ cpu = CpuReset(0)
    /\ hphase = "off"
    /\ halt_pc = 0
    /\ ula_tsc = VideoTs(0, 0)
    /\ tsc1 = VideoTs(0, 0)
    /\ cpu1 = CpuReset(0)
    /\ ff_branch = "none"
    /\ bus = BusIdle
    /\ ay = AyIdle

EofNext == EofFastForward

SpecEof == EofInit /\ [][EofNext]_vars

\* C27: for every normalized timestamp inside the frame (vc < VSL_COUNT, or
\* vc = VSL_COUNT with hc < 0) and PC contended or not,
\* execute_halted_state_until_eof returns vc = VSL_COUNT with
\* 0 <= hc < M1_CYCLE_TS, not earlier than the timestamp given, and its R
\* increment is not negative, so the unreachable!() branch is not taken.
C27_HaltedUntilEofBounds ==
    (probe.kind = "halted" /\ probe.done) =>
        /\ probe.ret.vc = VSL_COUNT
        /\ probe.ret.hc >= 0
        /\ probe.ret.hc < M1_CYCLE_TS
        /\ TsLeq(probe.tsc, probe.ret)
        /\ probe.r_incr >= 0
        /\ ~probe.cpu_after.panic
        /\ probe.cpu_after.r = (probe.cpu.r + probe.r_incr) % 128

\* a HALT in contended memory whose M1 cycle ended just past the frame has
\* been fast-forwarded by less than a line
C27_Witness ==
    /\ probe.kind = "halted"
    /\ probe.done
    /\ probe.tsc = VideoTs(VSL_COUNT, -67)
    /\ probe.cpu.pc = 16384
    /\ probe.ret = VideoTs(VSL_COUNT, 1)
    /\ probe.r_incr = 17

----------------------------------------------------------------------------
(* Termination of ControlUnit::execute_next_frame                           *)

\* one step of the thread that is inside execute_next_frame: the Cpu runs
\* instructions, or cpu.execute_with_limit returns and the pass ends
FrameStep == CpuRuns \/ CpuLimitReached \/ CpuHalts \/ CpuBreaks

\* The engine with a running thread: execute_next_frame is sequential code, so
\* a call that has begun keeps taking steps. Every Cpu step moves the counter
\* to a later stop point (CpuAdvance).
SpecFrame == Init /\ [][Next]_vars /\ WF_vars(FrameStep)

InFrameCall == call.op = "execute_next_frame" /\ ctl = "frame"
FrameCallOver == call.op = "execute_next_frame" /\ ctl = "idle"
UpdateTimestampCalls(u) == Positions(u.trace, {"bus.update_timestamp"})

\* C28: execute_next_frame terminates with tsc at EOF whatever Halt, write-I/O
\* and RETI breaks the Cpu raises, given that every Cpu step advances the
\* timestamp; bus.update_timestamp is called, with the final tsc, on the pass
\* that reaches EOF, and is not called on a pass that returns early.
C28_FrameTerminates ==
    /\ InFrameCall ~> (FrameCallOver /\ is_vts_eof(ula.tsc))
    /\ [](InFrameCall => UpdateTimestampCalls(ula) = {})
    /\ [](FrameCallOver =>
            /\ UpdateTimestampCalls(ula) = {Len(ula.trace)}
            /\ ula.bus.update_timestamp = ula.tsc
            /\ is_vts_eof(ula.tsc))

\* execute_next_frame has returned after a pass ended early by a break and a
\* later pass ended by a HALT
C28_Witness ==
    /\ FrameCallOver
    /\ call.cpu_ret = "Halt"
    /\ Cardinality(Positions(ula.trace, {"cpu.execute_with_limit"})) >= 2
    /\ UpdateTimestampCalls(ula) = {Len(ula.trace)}
    /\ is_vts_eof(ula.tsc)

----------------------------------------------------------------------------
(* Period changes of the tone, noise and envelope generators                *)

MaxGenSteps == 6   \* update calls on the generator per behaviour

\* period values written to the generators
TonePeriods == {0, 1, 3, 5, 8}
NoisePeriods == {0, 1, 3, 5, 35}
EnvPeriods == {0, 1, 2, 5}

\* the generator of the bench that is exercised
GenTick(a) ==
    CASE a.gen = "tone" -> a.tone.tick
      [] a.gen = "noise" -> a.noise.tick
      [] a.gen = "env" -> a.env.tick
GenPeriod(a) ==
    CASE a.gen = "tone" -> a.tone.period
      [] a.gen = "noise" -> a.noise.period
      [] a.gen = "env" -> a.env.period

\* ToneControl::update_is_low on the bench's tone generator
PeriodToneTick ==
    /\ ay.kind = "period"
    /\ ay.gen = "tone"
    /\ ay.steps < MaxGenSteps
    /\ ay' = [ay EXCEPT !.tone = tone_update_is_low(@).tone, !.op = "update",
                        !.steps = @ + 1, !.before = ay.tone.tick]
    /\ UNCHANGED <<haltVars, cpu, ulaVars, bus, probe>>

\* NoiseControl::update_is_low on the bench's noise generator
PeriodNoiseTick ==
    /\ ay.kind = "period"
    /\ ay.gen = "noise"
    /\ ay.steps < MaxGenSteps
    /\ ay' = [ay EXCEPT !.noise = noise_update_is_low(@).noise, !.op = "update",
                        !.steps = @ + 1, !.before = ay.noise.tick]
    /\ UNCHANGED <<haltVars, cpu, ulaVars, bus, probe>>

\* EnvelopeControl::update_level on the bench's envelope generator
PeriodEnvTick ==
    /\ ay.kind = "period"
    /\ ay.gen = "env"
    /\ ay.steps < MaxGenSteps
    /\ ay' = [ay EXCEPT !.env = update_level(@).env, !.op = "update",
                        !.steps = @ + 1, !.before = ay.env.tick]
    /\ UNCHANGED <<haltVars, cpu, ulaVars, bus, probe>>

\* ToneControl::set_period
PeriodSetTone ==
    /\ ay.kind = "period"
    /\ ay.gen = "tone"
    /\ \E period \in TonePeriods :
          ay' = [ay EXCEPT !.tone = tone_set_period(@, period), !.op = "set_period",
                           !.before = ay.tone.tick]
    /\ UNCHANGED <<haltVars, cpu, ulaVars, bus, probe>>

\* NoiseControl::set_period
PeriodSetNoise ==
    /\ ay.kind = "period"
    /\ ay.gen = "noise"
    /\ \E period \in NoisePeriods :
          ay' = [ay EXCEPT !.noise = noise_set_period(@, period), !.op = "set_period",
                           !.before = ay.noise.tick]
    /\ UNCHANGED <<haltVars, cpu, ulaVars, bus, probe>>

\* EnvelopeControl::set_period
PeriodSetEnv ==
    /\ ay.kind = "period"
    /\ ay.gen = "env"
    /\ \E period \in EnvPeriods :
          ay' = [ay EXCEPT !.env = env_set_period(@, period), !.op = "set_period",
                           !.before = ay.env.tick]
    /\ UNCHANGED <<haltVars, cpu, ulaVars, bus, probe>>

\* the generators as created; the envelope also with a running shape
PeriodInit ==
    /\ \E gen \in {"tone", "noise", "env"}, e \in EnvStates :
          /\ gen = "env" \/ e = EnvelopeControlDefault
          /\ ay = [kind |-> "period", gen |-> gen, tone |-> ToneControlDefault,
                   noise |-> NoiseControlDefault, env |-> e,
                   op |-> "default", steps |-> 0, before |-> 0]
    /\ ula = UlaDefault
    /\ ctl = "idle"
    /\ vtsc = ula.tsc
    /\ call = NoCall
    /\ cpu = CpuReset(0)
    /\ hphase = "off"
    /\ halt_pc = 0
    /\ ula_tsc = VideoTs(0, 0)
    /\ tsc1 = VideoTs(0, 0)
    /\ cpu1 = CpuReset(0)
    /\ ff_branch = "none"
    /\ bus = BusIdle
    /\ probe = ProbeIdle

PeriodNext ==
    \/ PeriodToneTick
    \/ PeriodNoiseTick
    \/ PeriodEnvTick
    \/ PeriodSetTone
    \/ PeriodSetNoise
    \/ PeriodSetEnv

SpecPeriod == PeriodInit /\ [][PeriodNext]_vars

PeriodChanged == ay.kind = "period" /\ ay.op = "set_period"

\* C29 as stated: after a period change on a tone, noise or envelope generator
\* the tick counter is strictly below the new period, a tick >= the new period
\* having been reduced modulo the new period.
C29_TickBelowPeriod ==
    PeriodChanged =>
        /\ GenTick(ay) < GenPeriod(ay)
        /\ GenTick(ay) = ay.before % GenPeriod(ay)

\* C29 (amended): after a period change on a noise or envelope generator the
\* tick counter is strictly below the new period, a tick >= the new period
\* having been reduced modulo the new period; on a tone generator the tick
\* counter is strictly below twice the new period, a tick >= 2 * period having
\* been reduced modulo 2 * period and a smaller tick left as it was.
C29_TickBelowCycle ==
    PeriodChanged =>
        /\ GenPeriod(ay) >= 1
        /\ ay.gen \in {"noise", "env"} =>
              /\ GenTick(ay) < GenPeriod(ay)
              /\ GenTick(ay) = ay.before % GenPeriod(ay)
        /\ ay.gen = "tone" =>
              /\ GenTick(ay) < 2 * GenPeriod(ay)
              /\ GenTick(ay) = ay.before % (2 * GenPeriod(ay))

\* a silent tone generator had counted to 10 when period 3 was written: the
\* tick was reduced modulo 6 and is not below the period
C29_Witness ==
    /\ PeriodChanged
    /\ ay.gen = "tone"
    /\ ay.before = 10
    /\ ay.tone.period = 3
    /\ ay.tone.tick = 4

----------------------------------------------------------------------------
(* A tone generator running with a constant period                          *)

MaxTonePeriod == 12   \* the largest period the bench runs a tone with
MaxToneCalls == 26    \* calls of update_is_low per behaviour

\* ToneControl::update_is_low, counting the calls and the changes of the
\* stored low state
ToneUpdateIsLow ==
    /\ ay.kind = "tone"
    /\ ay.calls < MaxToneCalls
    /\ LET r == tone_update_is_low(ay.tone)
       IN  ay' = [ay EXCEPT
                     !.tone = r.tone,
                     !.calls = @ + 1,
                     !.toggles = IF r.tone.low # ay.tone.low THEN @ + 1 ELSE @,
                     !.ret = r.ret,
                     !.all_false = @ /\ ~r.ret]
    /\ UNCHANGED <<haltVars, cpu, ulaVars, bus, probe>>

\* a tone generator at tick 0 with its period set, low or high
ToneInit ==
    /\ \E period \in 0 .. MaxTonePeriod, low \in BOOLEAN :
          ay = [kind |-> "tone",
                tone |-> [period |-> period, tick |-> 0, low |-> low],
                first_low |-> low, calls |-> 0, toggles |-> 0, ret |-> low,
                all_false |-> TRUE]
    /\ ula = UlaDefault
    /\ ctl = "idle"
    /\ vtsc = ula.tsc
    /\ call = NoCall
    /\ cpu = CpuReset(0)
    /\ hphase = "off"
    /\ halt_pc = 0
    /\ ula_tsc = VideoTs(0, 0)
    /\ tsc1 = VideoTs(0, 0)
    /\ cpu1 = CpuReset(0)
    /\ ff_branch = "none"
    /\ bus = BusIdle
    /\ probe = ProbeIdle

ToneNext == ToneUpdateIsLow

SpecTone == ToneInit /\ [][ToneNext]_vars

\* C30: with a constant period p >= 5 and starting from tick 0 the output has
\* toggled exactly floor(2 * (n - 1) / p) times after n calls of
\* update_is_low; with p < 5 every call returns false and the stored low
\* state is not toggled.
C30_ToneToggles ==
    (ay.kind = "tone" /\ ay.calls >= 1) =>
        IF ay.tone.period >= TONE_GEN_MIN_THRESHOLD
        THEN /\ ay.toggles = (2 * (ay.calls - 1)) \div ay.tone.period
             /\ ay.ret = ay.tone.low
             /\ ay.tone.low = (IF ay.toggles % 2 = 0 THEN ay.first_low
                               ELSE ~ay.first_low)
        ELSE /\ ay.all_false
             /\ ay.toggles = 0
             /\ ay.tone.low = ay.first_low

\* a tone of period 5 has completed a full cycle on its sixth call
C30_Witness ==
    /\ ay.kind = "tone"
    /\ ay.calls = 6
    /\ ay.tone.period = 5
    /\ ay.toggles = 2
    /\ ay.first_low
    /\ ay.ret

----------------------------------------------------------------------------
(* The envelope generator running with a period above 1                     *)

MaxHold == 3        \* the largest envelope period of the bench
MaxEnvCalls == 100  \* calls of update_level per behaviour

\* EnvelopeControl::update_level, counting the calls
EnvHoldUpdate ==
    /\ ay.kind = "envelope"
    /\ ay.calls < MaxEnvCalls
    /\ \E r \in {update_level(ay.env)} :
          ay' = [ay EXCEPT !.env = r.env, !.calls = @ + 1, !.ret = r.ret]
    /\ UNCHANGED <<haltVars, cpu, ulaVars, bus, probe>>

\* set_shape(shape) and then set_period(period) on a new envelope
EnvHoldInit ==
    /\ \E shape \in 0 .. 15, period \in 1 .. MaxHold :
          ay = [kind |-> "envelope",
                env |-> env_set_period(set_shape(EnvelopeControlDefault, shape),
                                       period),
                shape |-> shape, calls |-> 0, ret |-> 0]
    /\ ula = UlaDefault
    /\ ctl = "idle"
    /\ vtsc = ula.tsc
    /\ call = NoCall
    /\ cpu = CpuReset(0)
    /\ hphase = "off"
    /\ halt_pc = 0
    /\ ula_tsc = VideoTs(0, 0)
    /\ tsc1 = VideoTs(0, 0)
    /\ cpu1 = CpuReset(0)
    /\ ff_branch = "none"
    /\ bus = BusIdle
    /\ probe = ProbeIdle

EnvHoldNext == EnvHoldUpdate

SpecEnv == EnvHoldInit /\ [][EnvHoldNext]_vars

\* C31: with period P >= 1 set after set_shape, the k-th update_level call
\* (k >= 1) returns the value at index floor((k - 1) / P) of the period-1
\* sequence of the shape: every step, the first included, is held P ticks.
C31_StepHeldForPeriod ==
    (ay.kind = "envelope" /\ ay.calls >= 1) =>
        ay.ret = EnvelopeSequence(ay.shape,
                                  ((ay.calls - 1) \div ay.env.period) + 1)

\* CONT|ALT with period 3 is on its way up again: the 18th value of its
\* sequence at the 52nd call
C31_Witness ==
    /\ ay.kind = "envelope"
    /\ ay.shape = 10
    /\ ay.env.period = 3
    /\ ay.calls = 52
    /\ ay.ret = 1

----------------------------------------------------------------------------
(* The noise generator's shift register                                     *)

MaxNoiseSteps == 300   \* updates of a generator whose period is not 1

\* the largest value of 17 bits, 0x1FFFF
RNG_MAX == 2 ^ 17 - 1

\* NoiseControl::update_is_low; a generator with period 1 runs through all of
\* its states, the others are stopped after MaxNoiseSteps calls
NoiseUpdate ==
    /\ ay.kind = "noise"
    /\ ay.noise.period = 1 \/ ay.steps < MaxNoiseSteps
    /\ \E r \in {noise_update_is_low(ay.noise)} :
          ay' = [ay EXCEPT !.noise = r.noise,
                           !.steps = IF ay.noise.period = 1 THEN 0 ELSE @ + 1]
    /\ UNCHANGED <<haltVars, cpu, ulaVars, bus, probe>>

\* the generator after reset, and with register 6 written
NoiseInit ==
    /\ \E noise \in {NoiseControlDefault, noise_set_period(NoiseControlDefault, 1),
                     noise_set_period(NoiseControlDefault, 3)} :
          ay = [kind |-> "noise", noise |-> noise, steps |-> 0]
    /\ ula = UlaDefault
    /\ ctl = "idle"
    /\ vtsc = ula.tsc
    /\ call = NoCall
    /\ cpu = CpuReset(0)
    /\ hphase = "off"
    /\ halt_pc = 0
    /\ ula_tsc = VideoTs(0, 0)
    /\ tsc1 = VideoTs(0, 0)
    /\ cpu1 = CpuReset(0)
    /\ ff_branch = "none"
    /\ bus = BusIdle
    /\ probe = ProbeIdle

NoiseNext == NoiseUpdate

SpecNoise == NoiseInit /\ [][NoiseNext]_vars

\* bit n of rng
RngBit(rng, n) == (rng \div (2 ^ n)) % 2

\* one update of the noise generator, as the shift register should take it
NoiseStep ==
    ay.kind = "noise" =>
        IF ay.noise.tick >= ay.noise.period
        THEN /\ ay'.noise.rng =
                    BitXor(IF RngBit(ay.noise.rng, 0) = 1 THEN 73728 ELSE 0,
                           ay.noise.rng \div 2)
             /\ (ay'.noise.low # ay.noise.low)
                    <=> (RngBit(ay.noise.rng, 0) # RngBit(ay.noise.rng, 1))
        ELSE /\ ay'.noise.rng = ay.noise.rng
             /\ ay'.noise.low = ay.noise.low

\* C32: in every state reached from reset by noise updates rng is not zero and
\* fits in 17 bits; each expiry of the period makes rng
\* (0x12000 if rng is odd, else 0) XOR (rng >> 1) and toggles the output
\* exactly when bits 0 and 1 of the old rng differ.
C32_NoiseShiftRegister ==
    /\ [](ay.kind = "noise" => (ay.noise.rng >= 1 /\ ay.noise.rng <= RNG_MAX))
    /\ [][NoiseStep]_vars

\* the shift register has come to all ones
C32_Witness ==
    /\ ay.kind = "noise"
    /\ ay.noise.period = 1
    /\ ay.noise.rng = RNG_MAX
    /\ ay.noise.tick = 1

----------------------------------------------------------------------------
(* The ticker of render_audio                                               *)

\* the rendering that the device's record describes
Rendered == ay.kind = "device" /\ ay.op = "render_ay_audio"

\* two renderings with ticks, one after the other: the first tick of the
\* second comes CLOCK_INCREASE after the last tick of the first, in the time
\* of the first frame
TicksGoOn ==
    (/\ ay.kind = "device"
     /\ ay.renders >= 1
     /\ ay'.renders = ay.renders + 1
     /\ ay.ticks # <<>>
     /\ ay'.ticks # <<>>)
    => ay'.ticks[1].tick + ay.end_ts
          = ay.ticks[Len(ay.ticks)].tick + CLOCK_INCREASE

\* C33: within a call the ticks are at current_ts, current_ts + 32, ...
\* strictly below end_ts; the current_ts saved is the first tick time >= end_ts
\* less end_ts, in [0, 32) when the call began with current_ts < end_ts; a
\* call with current_ts >= end_ts makes no tick and saves current_ts - end_ts;
\* so the ticks of consecutive calls are 32 T-states apart in absolute time.
C33_TicksEvery32 ==
    /\ [](Rendered =>
            /\ \A i \in 1 .. Len(ay.ticks) :
                  /\ ay.ticks[i].tick
                        = ay.before.ay_sound.current_ts + 32 * (i - 1)
                  /\ ay.ticks[i].tick < ay.end_ts
            /\ ay.before.ay_sound.current_ts + 32 * Len(ay.ticks) >= ay.end_ts
            /\ ay.dev.ay_sound.current_ts
                  = ay.before.ay_sound.current_ts + 32 * Len(ay.ticks) - ay.end_ts
            /\ ay.before.ay_sound.current_ts < ay.end_ts =>
                  /\ ay.ticks # <<>>
                  /\ ay.dev.ay_sound.current_ts >= 0
                  /\ ay.dev.ay_sound.current_ts < 32
            /\ ay.before.ay_sound.current_ts >= ay.end_ts =>
                  /\ ay.ticks = <<>>
                  /\ ay.dev.ay_sound.current_ts
                        = ay.before.ay_sound.current_ts - ay.end_ts)
    /\ [][TicksGoOn]_vars

\* a second rendering began 24 T-states into its frame of 40 and made one
\* tick, leaving 16
C33_Witness ==
    /\ Rendered
    /\ ay.renders = 2
    /\ ay.before.ay_sound.current_ts = 24
    /\ ay.end_ts = 40
    /\ Len(ay.ticks) = 1
    /\ ay.dev.ay_sound.current_ts = 16

----------------------------------------------------------------------------
(* The Blep steps of render_audio                                           *)

\* the registers written before the first rendering: tone A with period 5,
\* noise off, amplitude 15 on A, the envelope on B, 9 on C, envelope period 1
\* and shape 13 (attack, hold)
BlepSetup ==
    <<[reg |-> 0, val |-> 5], [reg |-> 7, val |-> 56], [reg |-> 8, val |-> 15],
      [reg |-> 9, val |-> 31], [reg |-> 10, val |-> 9], [reg |-> 11, val |-> 1],
      [reg |-> 13, val |-> 13]>>

BlepInit ==
    /\ ay = [kind |-> "device",
             dev |-> [ay_sound |-> ApplyAll(Ay3_8891xAudioDefault, BlepSetup),
                      recorder |-> <<>>],
             renders |-> 0, op |-> "default",
             before |-> [ay_sound |-> Ay3_8891xAudioDefault, recorder |-> <<>>],
             end_ts |-> 0, ticks |-> <<>>, applied |-> <<>>,
             time_rate |-> 0, blep |-> <<>>, emitted |-> <<0, 0, 0>>,
             first |-> Ay3_8891xAudioDefault.last_levels]
    /\ ula = UlaDefault
    /\ ctl = "idle"
    /\ vtsc = ula.tsc
    /\ call = NoCall
    /\ cpu = CpuReset(0)
    /\ hphase = "off"
    /\ halt_pc = 0
    /\ ula_tsc = VideoTs(0, 0)
    /\ tsc1 = VideoTs(0, 0)
    /\ cpu1 = CpuReset(0)
    /\ ff_branch = "none"
    /\ bus = BusIdle
    /\ probe = ProbeIdle

SpecBlep == BlepInit /\ [][RenderNext]_vars

\* the deltas of the steps of AY channel i emitted before tick t
RECURSIVE SumDeltasBefore(_, _, _)
SumDeltasBefore(blep, i, t) ==
    IF blep = <<>> THEN 0
    ELSE (IF Head(blep).ay_chan = i /\ Head(blep).tick < t THEN Head(blep).delta ELSE 0)
            + SumDeltasBefore(Tail(blep), i, t)

\* the amplitude last emitted for AY channel i before tick t of the rendering:
\* that of the level saved by the rendering before, moved by the steps since
LastEmitted(i, t) ==
    ay_amp_level(ay.before.ay_sound.last_levels[i]) + SumDeltasBefore(ay.blep, i, t)

\* the steps of AY channel i at the k-th tick
StepsAt(k, i) ==
    {n \in 1 .. Len(ay.blep) :
        ay.blep[n].ay_chan = i /\ ay.blep[n].tick = ay.ticks[k].tick}

\* C34: render_audio emits a step for a channel at a tick exactly when the
\* channel's amplitude differs from the amplitude last emitted for it,
\* beginning with that of the level saved by the frame before; per channel the
\* deltas of all frames add up to amp(current level) - amp(initial level), no
\* step is zero and the times of the steps do not decrease.
C34_StepsOnChange ==
    Rendered =>
        /\ \A k \in 1 .. Len(ay.ticks) : \A i \in 1 .. 3 :
              /\ (StepsAt(k, i) # {})
                    <=> (ay_amp_level(ay.ticks[k].tone_levels[i])
                            # LastEmitted(i, ay.ticks[k].tick))
              /\ Cardinality(StepsAt(k, i)) <= 1
              /\ \A n \in StepsAt(k, i) :
                    /\ ay.blep[n].delta = ay_amp_level(ay.ticks[k].tone_levels[i])
                                             - LastEmitted(i, ay.ticks[k].tick)
                    /\ ay.blep[n].chan = RenderChans[i]
                    /\ ay.blep[n].time = at_timestamp(ay.time_rate, ay.ticks[k].tick)
        /\ \A n \in 1 .. Len(ay.blep) :
              /\ ay.blep[n].delta # 0
              /\ \E k \in 1 .. Len(ay.ticks) : ay.blep[n].tick = ay.ticks[k].tick
              /\ \A m \in 1 .. n : ay.blep[m].time <= ay.blep[n].time
        /\ \A i \in 1 .. 3 :
              ay.emitted[i] = ay_amp_level(ay.dev.ay_sound.last_levels[i])
                                 - ay_amp_level(ay.first[i])

\* a second rendering has stepped channel A down when its tone went low and
\* channel B up with the envelope, and has left channel C as it was
C34_Witness ==
    /\ Rendered
    /\ ay.renders = 2
    /\ \E n \in 1 .. Len(ay.blep) : ay.blep[n].ay_chan = 1 /\ ay.blep[n].delta < 0
    /\ \E n \in 1 .. Len(ay.blep) : ay.blep[n].ay_chan = 2 /\ ay.blep[n].delta > 0
    /\ \A n \in 1 .. Len(ay.blep) : ay.blep[n].ay_chan # 3
    /\ ay.emitted[3] = ay_amp_level(9)

----------------------------------------------------------------------------
(* Reading EAR in                                                           *)

\* the timestamps of the reads that may follow: the Cpu reads the port at
\* its own timestamp, which is not earlier than tsc
ReadTimes(u) == {ts \in StopPoints \cup {u.tsc} : TsLeq(u.tsc, ts)}

\* the EAR in level at ts by the whole log, whatever was read before
EarInAt(u, ts) ==
    LET log == u.ear_in_changes
        upto == {i \in 1 .. Len(log) : TsLeq(log[i].ts, ts)}
    IN  IF log = <<>> THEN (BitAnd(u.last_earmic_data, 2) \div 2)
        ELSE IF upto = {} THEN u.prev_ear_in
        ELSE log[CHOOSE i \in upto : \A j \in upto : j <= i].data

\* C35: read_ear_in(ts) returns the data of the latest EAR in entry not later
\* than ts, prev_ear_in when every entry left is later than ts, and bit 1 of
\* last_earmic_data when there is no entry; with reads at non-decreasing ts
\* the result is that of a read that nothing preceded (ear_in_last_index 0).
C35_ReadEarIn ==
    \A ts \in ReadTimes(ula) :
        /\ read_ear_in(ula, ts).data = EarInAt(ula, ts)
        /\ read_ear_in(ula, ts).data
              = read_ear_in([ula EXCEPT !.ear_in_last_index = 0], ts).data
        /\ read_ear_in(ula, ts).ula.ear_in_changes = ula.ear_in_changes

\* an earlier read has left its index at the second entry, and a read at the
\* end of the frame finds a later entry with the other level
C35_Witness ==
    /\ ula.ear_in_last_index = 1
    /\ Len(ula.ear_in_changes) = 3
    /\ \E ts \in ReadTimes(ula) :
          /\ read_ear_in(ula, ts).ula.ear_in_last_index = 2
          /\ read_ear_in(ula, ts).data # ula.ear_in_changes[2].data

----------------------------------------------------------------------------
(* The EAR in log with purge_ear_in_changes                                 *)

EarSingleStep == ~Panicked(ula) /\ LogsSingleStep
EarPortRead == ~Panicked(ula) /\ LogsPortRead
EarFramePass == ~Panicked(ula) /\ LogsFramePass
EarSetEarIn == ~Panicked(ula) /\ LogsSetEarIn
EarFeedEarIn == ~Panicked(ula) /\ LogsFeedEarIn

EarPurge ==
    /\ ~Panicked(ula)
    /\ \E ear_in \in BOOLEAN :
          LogsDone(purge_ear_in_changes(Fresh(ula), ear_in))

EarNext ==
    \/ EarSingleStep
    \/ EarPortRead
    \/ EarFramePass
    \/ EarSetEarIn
    \/ EarFeedEarIn
    \/ EarPurge

SpecEar == LogsInit /\ [][EarNext]_vars

\* C36: whatever the interleaving of set_ear_in, feed_ear_in,
\* purge_ear_in_changes, port reads and frame changes, ear_in_last_index never
\* exceeds the length of the EAR in log; so cleanup_audio_frame_data does not
\* panic, and a read finds the entries fed after a purge.
C36_IndexWithinLog ==
    /\ ula.ear_in_last_index <= Len(ula.ear_in_changes)
    /\ ~Panicked(ula)
    /\ \A ts \in ReadTimes(ula) : read_ear_in(ula, ts).data = EarInAt(ula, ts)

\* a step of one of the three EAR in operations
EarInStep == EarSetEarIn \/ EarFeedEarIn \/ EarPurge

\* the step of set_ear_in(ear_in, 0) with an empty EAR in log
SetEarInAtFrameStart(ear_in) ==
    /\ ~Panicked(ula)
    /\ ula.ear_in_changes = <<>>
    /\ LogsDone(set_ear_in(Fresh(ula), ear_in, 0))

\* C37: set_ear_in, feed_ear_in and purge_ear_in_changes leave the EAR/MIC
\* out log, prev_earmic_ts, prev_earmic_data, last_earmic_data, the border
\* log, the frame counter and tsc as they are; set_ear_in with delta 0 on an
\* empty EAR in log sets the EAR in level the frame starts with.
C37_EarInOnly ==
    [][/\ EarInStep =>
            /\ ula'.earmic_out_changes = ula.earmic_out_changes
            /\ ula'.prev_earmic_ts = ula.prev_earmic_ts
            /\ ula'.prev_earmic_data = ula.prev_earmic_data
            /\ ula'.last_earmic_data = ula.last_earmic_data
            /\ ula'.border_out_changes = ula.border_out_changes
            /\ ula'.border = ula.border
            /\ ula'.frames = ula.frames
            /\ ula'.tsc = ula.tsc
       /\ \A ear_in \in BOOLEAN :
            SetEarInAtFrameStart(ear_in) =>
                ula'.prev_ear_in = (IF ear_in THEN 1 ELSE 0)]_vars

----------------------------------------------------------------------------
(* The end of an audio frame                                                *)

\* cleanup_audio_frame_data of u does what C38 says
CleansUp(u) ==
    \E c \in {cleanup_audio_frame_data(u)} :
        /\ c.ear_in_changes = ShiftedAfter(u.ear_in_changes, u.tsc)
        /\ c.prev_ear_in = EarInAt(u, u.tsc)
        /\ c.ear_in_last_index = 0
        /\ c.earmic_out_changes = <<>>
        /\ c.prev_earmic_data = u.last_earmic_data

\* what is left of the cleanup when the operation that changed the frame is
\* over: the Cpu may have logged EAR/MIC out changes of the new frame
FrameCleaned ==
    FrameChanged(ula') =>
        /\ ula'.ear_in_changes = ShiftedAfter(ula.ear_in_changes, ula.tsc)
        /\ ula'.prev_ear_in = EarInAt(ula, ula.tsc)
        /\ ula'.prev_earmic_data = ula.last_earmic_data
        /\ \A i \in 1 .. Len(ula'.earmic_out_changes) :
              /\ TsLeq(wrap_frame(ula.tsc), ula'.earmic_out_changes[i].ts)
              /\ TsLeq(ula'.earmic_out_changes[i].ts, ula'.tsc)
        /\ \A i \in 1 .. ula'.ear_in_last_index :
              TsLeq(ula'.ear_in_changes[i + 1].ts, ula'.tsc)

\* C38: at the end of a frame cleanup_audio_frame_data keeps exactly the EAR
\* in entries later than tsc, in order, with vc less VSL_COUNT and hc and data
\* as they were; prev_ear_in becomes the EAR in level at tsc,
\* ear_in_last_index 0, the EAR/MIC out log empty and prev_earmic_data
\* last_earmic_data.
C38_CleanupAudioFrame ==
    /\ [](is_vts_eof(ula.tsc) => CleansUp(ula))
    /\ [][FrameCleaned]_vars

\* a frame change has dropped entries, kept one, taken the level 1 from a
\* dropped entry and the EAR/MIC out level from the last write of the frame
C38_Witness ==
    /\ FrameChanged(ula)
    /\ Len(ula.ear_in_changes) = 1
    /\ ula.ear_in_changes[1].data = 0
    /\ ula.prev_ear_in = 1
    /\ ula.prev_earmic_data # 0
    /\ ula.earmic_out_changes = <<>>
    /\ ula.ear_in_last_index = 0

----------------------------------------------------------------------------
(* MIC out pulses: chip/ula/audio.rs                                        *)

MaxMicLog == 3      \* EAR/MIC out changes logged in one frame at most
MaxMicFrames == 2   \* frames prepared per behaviour

\* a pulse: NonZeroU32 (max: u32::MAX), or the panic of MicPulseIter::next
Pulse(delta) == [max |-> FALSE, delta |-> delta, panic |-> delta <= 0]
PulseMax == [max |-> TRUE, delta |-> 0, panic |-> FALSE]

\* FTs::checked_sub: whether ts - last leaves the range of i32
SubOverflows(ts, last) ==
    \/ last < 0 /\ ts > (-(FTS_MIN + 1)) + last
    \/ last > 0 /\ ts < FTS_MIN + last

\* MicPulseIter::next until it returns None: the pulses of the entries from
\* i on, with last_pulse_ts and last_data as the iterator holds them
RECURSIVE MicPulseIter(_, _, _, _)
MicPulseIter(log, i, last_pulse_ts, last_data) ==
    IF i > Len(log) THEN <<>>
    ELSE IF BitXor(last_data, log[i].data) % 2 = 1
    THEN <<IF SubOverflows(vts_to_tstates(log[i].ts), last_pulse_ts)
           THEN PulseMax
           ELSE Pulse(vts_to_tstates(log[i].ts) - last_pulse_ts)>>
            \o MicPulseIter(log, i + 1, vts_to_tstates(log[i].ts), log[i].data)
    ELSE MicPulseIter(log, i + 1, last_pulse_ts, last_data)

\* MicOut::mic_out_iter_pulses, collected
mic_out_iter_pulses(u) ==
    MicPulseIter(u.earmic_out_changes, 1, u.prev_earmic_ts, u.prev_earmic_data)

\* ghost: the MIC bit before entry i of the log of a frame that began with mic
MicBefore(log, i, mic) == IF i = 1 THEN mic ELSE log[i - 1].data % 2

\* ghost: the entries of log that flip the MIC bit
MicFlips(log, mic) ==
    {i \in 1 .. Len(log) : log[i].data % 2 # MicBefore(log, i, mic)}

\* ghost: the last flip of the MIC bit, [known, ts], after the log of a frame
\* that began with the MIC bit mic and the last flip `flip`
LastFlip(log, mic, flip) ==
    IF MicFlips(log, mic) = {} THEN flip
    ELSE [known |-> TRUE,
          ts |-> vts_to_tstates(
                    log[CHOOSE i \in MicFlips(log, mic) :
                            \A j \in MicFlips(log, mic) : j <= i].ts)]

\* ghost: the last flip seen from the next frame
CarriedFlip(f) ==
    IF f.known THEN [f EXCEPT !.ts = saturating_sub(@, FRAME_TSTATES_COUNT)] ELSE f

\* ghost: the pulses C39 expects of the log
ExpectedPulses(log, mic, flip) ==
    LET flips == MicFlips(log, mic)
        nth(k) == CHOOSE i \in flips : Cardinality({j \in flips : j < i}) = k - 1
        before(k) == LastFlip(SubSeq(log, 1, nth(k) - 1), mic, flip)
    IN  [k \in 1 .. Cardinality(flips) |->
            IF before(k).known
            THEN Pulse(vts_to_tstates(log[nth(k)].ts) - before(k).ts)
            ELSE PulseMax]

\* bytes the Cpu writes to the ULA port: MIC is bit 3, EAR bit 4
MicOutBytes == {0, 8, 16, 24}

\* a single step of the Cpu that may write the ULA port; the ghost in probe
\* keeps the MIC bit and the last MIC flip as they were when the frame began
MicSingleStep ==
    /\ ~is_vts_eof(ula.tsc) \/ ula.frames[1] < MaxMicFrames
    /\ is_vts_eof(ula.tsc) \/ Len(ula.earmic_out_changes) < MaxMicLog
    /\ \E k \in 1 .. MaxSkip, out \in MicOutBytes \cup {NoData} :
          \E u \in {ula_execute_single_step(Fresh(ula), cpu, "Ok",
                        [k |-> k, r |-> 0, pc |-> 0, out |-> out, addr |-> NoData]).ula} :
             /\ LogsDone(u)
             /\ probe' = IF FrameChanged(u)
                         THEN [probe EXCEPT
                                 !.mic = ula.last_earmic_data % 2,
                                 !.flip = CarriedFlip(LastFlip(ula.earmic_out_changes,
                                                               probe.mic, probe.flip))]
                         ELSE probe

MicInit ==
    /\ ula = UlaDefault
    /\ ctl = "idle"
    /\ vtsc = ula.tsc
    /\ call = NoCall
    /\ cpu = CpuReset(0)
    /\ hphase = "off"
    /\ halt_pc = 0
    /\ ula_tsc = VideoTs(0, 0)
    /\ tsc1 = VideoTs(0, 0)
    /\ cpu1 = CpuReset(0)
    /\ ff_branch = "none"
    /\ bus = BusIdle
    /\ probe = [kind |-> "mic", mic |-> 0, flip |-> [known |-> FALSE, ts |-> 0]]
    /\ ay = AyIdle

MicNext == MicSingleStep

SpecMic == MicInit /\ [][MicNext]_vars

\* C39: mic_out_iter_pulses gives one pulse for every entry of the EAR/MIC
\* out log that flips the MIC bit and none for the others; a pulse is the
\* number of T-states since the MIC flip before it, in this frame or in an
\* earlier one, and u32::MAX when there was none.
C39_MicPulses ==
    mic_out_iter_pulses(ula) = ExpectedPulses(ula.earmic_out_changes, probe.mic, probe.flip)

----------------------------------------------------------------------------
(* MultiJoystickBusDevice and the static joystick chains                    *)

\* read_io of KempstonJoystick<D>, FullerJoystick<D>, CursorJoystick<D> or
\* SinclairJoystick<D> = SinclairLeftJoystick<SinclairRightJoystick<D>> with
\* the joystick devices of the selected variant; bus_data is what D answers
static_read_io(joystick, port, bus_data) ==
    IF joystick.variant = "Sinclair"
    THEN joystick_read_io("SinclairLeft", joystick.joy[1], port,
            joystick_read_io("SinclairRight", joystick.joy[2], port, bus_data))
    ELSE joystick_read_io(joystick.variant, joystick.joy[1], port, bus_data)

\* C40: read_io of MultiJoystickBusDevice returns what the static chain of
\* the selected variant returns over the same next device (for Sinclair the
\* left joystick over the right one, both ANDed when both are addressed), and
\* its write_io always hands the write to the next device.
C40_MultiAsStatic ==
    /\ (bus.chain = "multi" /\ bus.last.op = "read_io") =>
          /\ bus.last.ret = static_read_io(bus.last.before, bus.last.port, bus.last.down)
          /\ bus.last.down_call = <<bus.last.port, bus.last.ts>>
          /\ bus.joystick = bus.last.before
    /\ (bus.chain = "multi" /\ bus.last.op = "write_io") =>
          /\ bus.last.forwarded
          /\ bus.last.ret = bus.last.down
          /\ bus.last.down_call = <<bus.last.port, bus.last.data, bus.last.ts>>
          /\ bus.joystick = bus.last.before

\* a Sinclair pair with both joysticks moved has been read on the port that
\* both of them decode, over a next device answering with wait states
C40_Witness ==
    /\ bus.chain = "multi"
    /\ bus.joystick.variant = "Sinclair"
    /\ bus.joystick.joy = <<31, 17>>
    /\ bus.last.op = "read_io"
    /\ bus.last.port = 254
    /\ bus.last.down = SomeIo(240, 3)
    /\ bus.last.ret = SomeIo(16, 3)

====
